---- MODULE Spec2Model ----
(***************************************************************************)
(* Model of the go-web3 client library: the JSON-RPC transport             *)
(* (Client.Call), the typed Ethereum methods built on it, the wallet flows *)
(* (SendTransaction, DeployContract, WaitForTransaction), the transaction  *)
(* builder / signer and the unit conversion tables.                        *)
(*                                                                         *)
(* Strings whose characters matter are sequences of one-character strings. *)
(* Go errors are records [kind, code, message, data]; kind "nil" is the nil *)
(* error.  A json.RawMessage is a record [t, s]: t is the JSON type of the *)
(* value ("nil" for an absent member), s the text of a JSON string.        *)
(***************************************************************************)
EXTENDS Integers, Sequences, FiniteSets, TLC

(* ---------------------------------------------------------------------- *)
(* Bounds                                                                 *)
(* ---------------------------------------------------------------------- *)

\* number of goroutines that use the same Client / Wallet concurrently
NumProcs == 2

\* number of eth_getTransactionReceipt polls one WaitForTransaction may start
MaxPolls == 2

\* the passes of a padding loop that are followed
MaxPadIters == 9

Procs == 1..NumProcs

VARIABLES
    idCounter,   \* Client.idCounter
    call,        \* per goroutine: the frame of its running Client.Call
    op,          \* per goroutine: the frame of the operation it runs
    ctxDone,     \* per goroutine: its context has been cancelled
    mined,       \* node state: the watched transaction has been mined
    started,     \* history: the Client.Call invocations in start order
    sentRaw,     \* node state: the raw transactions sent to it, in order
    txParams,    \* a TransactionParams builder
    eip1559Params, \* an EIP1559TransactionParams value
    signOut,     \* the last signing call: function, input and what it returned
    conv         \* the last unit conversion: function, arguments and result

\* the variables of the builder and of the conversions
pureVars == <<txParams, eip1559Params, signOut, conv>>

\* the variables of the client, the wallet and the node
netVars == <<idCounter, call, op, ctxDone, mined, started, sentRaw>>

vars == <<netVars, pureVars>>

(* ---------------------------------------------------------------------- *)
(* Errors and raw JSON values                                             *)
(* ---------------------------------------------------------------------- *)

NoErr == [kind |-> "nil", code |-> 0, message |-> "", data |-> "", wrap |-> <<>>]

MkErr(k) == [kind |-> k, code |-> 0, message |-> "", data |-> "", wrap |-> <<>>]

\* fmt.Errorf(prefix + ": %w", err)
Wrap(prefix, err) == [err EXCEPT !.wrap = <<prefix>> \o @]

RawNil == [t |-> "nil", s |-> <<>>]

RawNull == [t |-> "null", s |-> <<>>]

RawString(chars) == [t |-> "string", s |-> chars]

RawNumber == [t |-> "number", s |-> <<>>]

\* a receipt object; s carries its "status" member
RawObject(status) == [t |-> "object", s |-> status]

\* error members a server may put in the envelope; dtype is the JSON type of
\* the "data" member ("absent" when the member is missing)
ServerErrors ==
    { [code |-> -32000, message |-> "insufficient funds", data |-> "", dtype |-> "absent"],
      [code |-> 3, message |-> "execution reverted", data |-> "0x08c379a0", dtype |-> "string"],
      [code |-> -32015, message |-> "vm error", data |-> "", dtype |-> "object"] }

NoServerError == [code |-> 0, message |-> "", data |-> "", dtype |-> "absent"]

\* a response body: valid is FALSE for a body that is not JSON; id is the
\* "id" member of the envelope; errm tells whether the "error" member is
\* absent, null or an object
MkBody(id, valid, result, errm, errobj) ==
    [id |-> id, valid |-> valid, result |-> result, errm |-> errm, errobj |-> errobj]

\* no body was read
NoBody == MkBody(0, FALSE, RawNil, "absent", NoServerError)

(* ---------------------------------------------------------------------- *)
(* Client                                                                 *)
(* ---------------------------------------------------------------------- *)

\* NewClient: idCounter: 0
NewClient == 0

AtomicAddUint64MutNoStore(counter, delta) == counter

AtomicAddUint64MutTwice(counter, delta) == counter + delta + delta

\* atomic.AddUint64(&c.idCounter, 1): the new value (the counter is a uint64;
\* the model stays far below 2^64)
AtomicAddUint64(counter, delta) == counter + delta

\* the frame of a Call: pc is "send" before Do, "await" while the request is
\* out, "ret" once Call returned (result, err); sent counts the HTTP
\* requests issued, ctxAtDo records whether the context was done when Do
\* started, obs whether the transport reported the cancellation, read
\* whether a response body was read in full, body that body
NoCall ==
    [pc |-> "none", id |-> 0, method |-> "", sent |-> 0, ctxAtDo |-> FALSE,
     obs |-> FALSE, read |-> FALSE, body |-> NoBody, result |-> RawNil, err |-> NoErr]

\* the frame of a Call that returned (result, err)
Returned(c, result, err, obs) ==
    [c EXCEPT !.pc = "ret", !.result = result, !.err = err, !.obs = obs]

\* json.Unmarshal(body, &rpcResp): Result keeps the raw member (a null member
\* is kept as the text null), Error is a pointer, nil for an absent or null
\* member; RPCError.Data is a Go string, so a "data" member of another JSON
\* type is a decode failure
UnmarshalRPCResponse(body) ==
    IF ~body.valid
    THEN [ok |-> FALSE, Result |-> RawNil, ErrorNil |-> TRUE, Error |-> NoErr]
    ELSE IF body.errm = "object" /\ body.errobj.dtype = "object"
    THEN [ok |-> FALSE, Result |-> RawNil, ErrorNil |-> TRUE, Error |-> NoErr]
    ELSE [ok |-> TRUE, Result |-> body.result,
          ErrorNil |-> body.errm # "object",
          Error |-> IF body.errm = "object"
                    THEN [kind |-> "rpc", code |-> body.errobj.code,
                          message |-> body.errobj.message,
                          data |-> body.errobj.data, wrap |-> <<>>]
                    ELSE NoErr]

CallDecodeMutResultWins(body) ==
    LET r == UnmarshalRPCResponse(body) IN
    IF ~r.ok THEN [result |-> RawNil, err |-> MkErr("unmarshal")]
    ELSE IF ~r.ErrorNil /\ r.Result.t = "nil" THEN [result |-> RawNil, err |-> r.Error]
    ELSE [result |-> r.Result, err |-> NoErr]

\* Client.Call, from json.Unmarshal to the return
CallDecode(body) ==
    LET r == UnmarshalRPCResponse(body) IN
    IF ~r.ok THEN [result |-> RawNil, err |-> MkErr("unmarshal")]
    ELSE IF ~r.ErrorNil THEN [result |-> RawNil, err |-> r.Error]
    ELSE [result |-> r.Result, err |-> NoErr]

CtxObservedMutIgnored(done) == FALSE

\* what http.Client.Do sees of the request's context when it starts
CtxObserved(done) == done

DoFailedMutRetry(c, kind, obs) == [c EXCEPT !.pc = "send"]

\* Client.Call when Do or ReadAll fails: return nil, fmt.Errorf(...)
DoFailed(c, kind, obs) == Returned(c, RawNil, MkErr(kind), obs)

(* ---------------------------------------------------------------------- *)
(* Hex quantities and the typed Ethereum methods                          *)
(* ---------------------------------------------------------------------- *)

HexDigits == {"0", "1", "2", "3", "4", "5", "6", "7", "8", "9",
              "a", "b", "c", "d", "e", "f", "A", "B", "C", "D", "E", "F"}

\* json.Unmarshal(result, &hexValue) with hexValue a Go string: an absent
\* result (empty input) and a value of another JSON type fail; null leaves
\* the string empty and reports no error
JsonUnmarshalString(raw) ==
    CASE raw.t = "string" -> [ok |-> TRUE, s |-> raw.s]
      [] raw.t = "null" -> [ok |-> TRUE, s |-> <<>>]
      [] OTHER -> [ok |-> FALSE, s |-> <<>>]

\* Eth.SendRawTransaction: (string, error)
SendRawTransaction(c) ==
    IF c.err.kind # "nil" THEN [st |-> "err", s |-> <<>>, err |-> c.err]
    ELSE LET u == JsonUnmarshalString(c.result) IN
         IF ~u.ok
         THEN [st |-> "err", s |-> <<>>,
               err |-> Wrap("failed to unmarshal transaction hash", MkErr("decode"))]
         ELSE [st |-> "ok", s |-> u.s, err |-> NoErr]

\* Eth.GetTransactionReceipt: json.Unmarshal(result, &receipt) into a struct:
\* an object fills the fields, null is accepted and leaves the zero-valued
\* receipt, anything else fails; on success &receipt is returned
GetTransactionReceipt(c) ==
    IF c.err.kind # "nil" THEN [st |-> "err", status |-> <<>>, err |-> c.err]
    ELSE IF c.result.t = "object" THEN [st |-> "ok", status |-> c.result.s, err |-> NoErr]
    ELSE IF c.result.t = "null" THEN [st |-> "ok", status |-> <<>>, err |-> NoErr]
    ELSE [st |-> "err", status |-> <<>>,
          err |-> Wrap("failed to unmarshal transaction receipt", MkErr("decode"))]

HexChar(d) ==
    CASE d = 0 -> "0" [] d = 1 -> "1" [] d = 2 -> "2" [] d = 3 -> "3"
      [] d = 4 -> "4" [] d = 5 -> "5" [] d = 6 -> "6" [] d = 7 -> "7"
      [] d = 8 -> "8" [] d = 9 -> "9" [] d = 10 -> "a" [] d = 11 -> "b"
      [] d = 12 -> "c" [] d = 13 -> "d" [] d = 14 -> "e" [] d = 15 -> "f"

RECURSIVE HexText(_)
\* the minimal lower-case hex digits of n, as fmt's %x prints them
HexText(n) == IF n < 16 THEN <<HexChar(n)>> ELSE Append(HexText(n \div 16), HexChar(n % 16))

\* a quantity as the node encodes it
NodeQuantity(n) == RawString(<<"0", "x">> \o HexText(n))

(* ---------------------------------------------------------------------- *)
(* Transaction builder and signer                                         *)
(* ---------------------------------------------------------------------- *)

ChainMainnet == 1

\* the content of a SignedTransaction (hash and raw are functions of it);
\* typ "" together with nil = TRUE is the nil *SignedTransaction
NoSigned ==
    [nil |-> TRUE, typ |-> "", nonce |-> 0, to |-> "", gas |-> 0, price |-> 0,
     tip |-> 0, value |-> 0, data |-> <<>>, chainId |-> 0]

\* the external signer: types.NewTx, types.SignTx, rlp.EncodeToBytes
ExternalSign(typ, to, nonce, gas, price, tip, value, data, chainId) ==
    [nil |-> FALSE, typ |-> typ, nonce |-> nonce, to |-> to, gas |-> gas,
     price |-> price, tip |-> tip, value |-> value, data |-> data,
     chainId |-> chainId]

ValidationErr(msg) ==
    [kind |-> "validation", code |-> 0, message |-> msg, data |-> "", wrap |-> <<>>]

SignTransactionMutNoGasCheck(tx) ==
    IF tx.To = ""
    THEN [signed |-> NoSigned, signer |-> FALSE,
          err |-> ValidationErr("transaction recipient (to) is required")]
    ELSE IF tx.GasPriceNil
    THEN [signed |-> NoSigned, signer |-> FALSE,
          err |-> ValidationErr("gas price is required")]
    ELSE [signed |-> ExternalSign("legacy", tx.To, tx.Nonce, tx.Gas, tx.GasPrice, 0,
                                  tx.Value, tx.Data, tx.ChainID),
          signer |-> TRUE, err |-> NoErr]

\* SignTransaction: signer tells whether the external signer was invoked
SignTransaction(tx) ==
    IF tx.To = ""
    THEN [signed |-> NoSigned, signer |-> FALSE,
          err |-> ValidationErr("transaction recipient (to) is required")]
    ELSE IF tx.GasPriceNil
    THEN [signed |-> NoSigned, signer |-> FALSE,
          err |-> ValidationErr("gas price is required")]
    ELSE IF tx.Gas = 0
    THEN [signed |-> NoSigned, signer |-> FALSE,
          err |-> ValidationErr("gas limit is required")]
    ELSE [signed |-> ExternalSign("legacy", tx.To, tx.Nonce, tx.Gas, tx.GasPrice, 0,
                                  tx.Value, tx.Data, tx.ChainID),
          signer |-> TRUE, err |-> NoErr]

\* SignEIP1559Transaction
SignEIP1559Transaction(tx) ==
    IF tx.To = ""
    THEN [signed |-> NoSigned, signer |-> FALSE,
          err |-> ValidationErr("transaction recipient (to) is required")]
    ELSE IF tx.MaxFeePerGasNil
    THEN [signed |-> NoSigned, signer |-> FALSE,
          err |-> ValidationErr("maxFeePerGas is required")]
    ELSE IF tx.MaxPriorityFeePerGasNil
    THEN [signed |-> NoSigned, signer |-> FALSE,
          err |-> ValidationErr("maxPriorityFeePerGas is required")]
    ELSE IF tx.Gas = 0
    THEN [signed |-> NoSigned, signer |-> FALSE,
          err |-> ValidationErr("gas limit is required")]
    ELSE [signed |-> ExternalSign("eip1559", tx.To, tx.Nonce, tx.Gas, tx.MaxFeePerGas,
                                  tx.MaxPriorityFeePerGas, tx.Value, tx.Data, tx.ChainID),
          signer |-> TRUE, err |-> NoErr]

\* NewTransactionParams
NewTransactionParams ==
    [To |-> "", Value |-> 0, Gas |-> 0, GasPriceNil |-> TRUE, GasPrice |-> 0,
     Data |-> <<>>, Nonce |-> 0, ChainID |-> ChainMainnet]

\* NewEIP1559TransactionParams
NewEIP1559TransactionParams ==
    [To |-> "", Value |-> 0, Gas |-> 0, MaxFeePerGasNil |-> TRUE, MaxFeePerGas |-> 0,
     MaxPriorityFeePerGasNil |-> TRUE, MaxPriorityFeePerGas |-> 0,
     Data |-> <<>>, Nonce |-> 0, ChainID |-> ChainMainnet]

\* the parameters CreateContractDeployment hands to SignTransaction
DeploymentParams(bytecode, constructorNil, constructorData, params) ==
    [params EXCEPT !.To = "",
                   !.Data = IF ~constructorNil THEN bytecode \o constructorData
                            ELSE bytecode]

\* CreateContractDeployment
CreateContractDeployment(bytecode, constructorNil, constructorData, params) ==
    SignTransaction(DeploymentParams(bytecode, constructorNil, constructorData, params))

\* nothing was signed yet
NoSignOut ==
    [fn |-> "", legacy |-> NewTransactionParams, eip1559 |-> NewEIP1559TransactionParams,
     signed |-> NoSigned, signer |-> FALSE, err |-> NoErr]

\* the record of a signing call: fn the function, legacy / eip1559 the
\* parameters it was given, out what it returned
SignRecord(fn, legacy, eip1559, out) ==
    [fn |-> fn, legacy |-> legacy, eip1559 |-> eip1559,
     signed |-> out.signed, signer |-> out.signer, err |-> out.err]

\* SignRecord for a function that takes legacy parameters
LegacySignRecord(fn, legacy, out) ==
    SignRecord(fn, legacy, NewEIP1559TransactionParams, out)

\* SignRecord for a function that takes EIP-1559 parameters
EIP1559SignRecord(fn, eip1559, out) ==
    SignRecord(fn, NewTransactionParams, eip1559, out)

(* ---------------------------------------------------------------------- *)
(* math/big, as ToWei and FromWei use it                                  *)
(*                                                                        *)
(* A big.Int magnitude (nat) is a sequence of limbs, least significant    *)
(* limb first, with no leading zero limb: <<>> is 0.  The values of the   *)
(* conversions (10^18 .. 10^30 wei) do not fit a machine integer.         *)
(* A text is a sequence of one-character strings.                         *)
(* ---------------------------------------------------------------------- *)

\* the bits of a limb
LimbBits == 15

\* a limb is in 0 .. LimbBase - 1; the product of two limbs is a machine integer
LimbBase == 2^LimbBits

RECURSIVE NatFromInt(_)
\* nat of a small non-negative integer
NatFromInt(n) == IF n = 0 THEN <<>> ELSE <<n % LimbBase>> \o NatFromInt(n \div LimbBase)

RECURSIVE NatNorm(_)
\* nat.norm: drop the leading zero limbs
NatNorm(a) ==
    IF a = <<>> \/ a[Len(a)] # 0 THEN a ELSE NatNorm(SubSeq(a, 1, Len(a) - 1))

\* nat.add: limb by limb with a carry
NatAdd(a, b) ==
    LET RECURSIVE AddC(_, _, _)
        AddC(u, v, c) ==
            IF v = <<>> /\ c = 0 THEN u
            ELSE IF u = <<>> /\ c = 0 THEN v
            ELSE LET x == IF u = <<>> THEN 0 ELSE u[1]
                     y == IF v = <<>> THEN 0 ELSE v[1]
                     s == x + y + c
                 IN  <<s % LimbBase>> \o AddC(IF u = <<>> THEN u ELSE Tail(u),
                                              IF v = <<>> THEN v ELSE Tail(v), s \div LimbBase)
    IN  AddC(a, b, 0)

\* nat.sub, for a >= b: limb by limb with a borrow
NatSub(a, b) ==
    LET RECURSIVE SubB(_, _, _)
        SubB(u, v, c) ==
            IF v = <<>> /\ c = 0 THEN u
            ELSE LET y == IF v = <<>> THEN 0 ELSE v[1]
                     d == u[1] - y - c
                 IN  <<(d + LimbBase) % LimbBase>>
                     \o SubB(Tail(u), IF v = <<>> THEN v ELSE Tail(v), IF d < 0 THEN 1 ELSE 0)
    IN  NatNorm(SubB(a, b, 0))

\* nat.cmp: -1, 0 or 1
NatCmp(a, b) ==
    LET RECURSIVE CmpAt(_)
        CmpAt(i) ==
            IF i = 0 THEN 0
            ELSE IF a[i] # b[i] THEN (IF a[i] > b[i] THEN 1 ELSE -1)
            ELSE CmpAt(i - 1)
    IN  IF Len(a) # Len(b) THEN (IF Len(a) > Len(b) THEN 1 ELSE -1)
        ELSE CmpAt(Len(a))

\* nat.mulAddWW: a * k for a limb k
NatMulSmall(a, k) ==
    LET RECURSIVE MulC(_, _)
        MulC(u, c) ==
            IF u = <<>> THEN (IF c = 0 THEN <<>> ELSE <<c>>)
            ELSE LET t == u[1] * k + c
                 IN  <<t % LimbBase>> \o MulC(Tail(u), t \div LimbBase)
    IN  IF k = 0 THEN <<>> ELSE MulC(a, 0)

RECURSIVE NatMul(_, _)
\* nat.mul
NatMul(a, b) ==
    IF a = <<>> \/ b = <<>> THEN <<>>
    ELSE IF Len(b) = 1 THEN NatMulSmall(a, b[1])
    ELSE NatAdd(NatMulSmall(a, b[1]), <<0>> \o NatMul(a, Tail(b)))

\* nat.divW: quotient (a nat) and remainder (a limb) of a by a limb k # 0,
\* by long division from the top limb, with the quotient q and the remainder
\* r of the limbs above limb i
NatDivSmall(a, k) ==
    LET RECURSIVE DivAt(_, _, _)
        DivAt(i, q, r) ==
            IF i = 0 THEN [q |-> NatNorm(q), r |-> r]
            ELSE IF r * LimbBase + a[i] < k
            THEN DivAt(i - 1, <<0>> \o q, r * LimbBase + a[i])
            ELSE DivAt(i - 1, <<(r * LimbBase + a[i]) \div k>> \o q, (r * LimbBase + a[i]) % k)
    IN  DivAt(Len(a), <<>>, 0)

\* nat.div: quotient and remainder, for b # 0, by long division from the top
\* limb, with the quotient q and the remainder r of the limbs above limb i;
\* QuoLimb is the largest limb t >= d with b * t <= r that differs from d in
\* the bits j .. 0 only
NatDiv(a, b) ==
    LET RECURSIVE QuoLimb(_, _, _)
        QuoLimb(r, d, j) ==
            IF j < 0 THEN d
            ELSE IF NatCmp(NatMulSmall(b, d + 2^j), r) <= 0 THEN QuoLimb(r, d + 2^j, j - 1)
            ELSE QuoLimb(r, d, j - 1)
        RECURSIVE DivAt(_, _, _)
        DivAt(i, q, r) ==
            IF i = 0 THEN [q |-> NatNorm(q), r |-> r]
            ELSE IF NatCmp(NatNorm(<<a[i]>> \o r), b) < 0
            THEN DivAt(i - 1, <<0>> \o q, NatNorm(<<a[i]>> \o r))
            ELSE LET r2 == <<a[i]>> \o r
                     d == QuoLimb(r2, 0, LimbBits - 1)
                 IN  DivAt(i - 1, <<d>> \o q, NatSub(r2, NatMulSmall(b, d)))
    IN  DivAt(Len(a), <<>>, <<>>)

RECURSIVE NatMulPow(_, _, _)
\* a * x^k for a small x (nat.expNN without a modulus is NatMulPow(<<1>>, x, k)),
\* by the largest powers of x that are a limb
NatMulPow(a, x, k) ==
    LET chunk == CHOOSE c \in 1..LimbBits : x^c < LimbBase /\ x^(c + 1) >= LimbBase
        c == IF k < chunk THEN k ELSE chunk
    IN  IF a = <<>> \/ k = 0 THEN a
        ELSE NatMulPow(NatMulSmall(a, x^c), x, k - c)

\* nat.shl
NatShl(a, n) ==
    IF a = <<>> \/ n = 0 THEN a
    ELSE [i \in 1..(n \div LimbBits) |-> 0] \o NatMulSmall(a, 2^(n % LimbBits))

\* nat.shr
NatShr(a, n) ==
    IF n \div LimbBits >= Len(a) THEN <<>>
    ELSE NatDivSmall(SubSeq(a, n \div LimbBits + 1, Len(a)), 2^(n % LimbBits)).q

\* nat.bit: the bit i of a, counted from 0
NatBit(a, i) ==
    IF i \div LimbBits + 1 > Len(a) THEN 0
    ELSE (a[i \div LimbBits + 1] \div 2^(i % LimbBits)) % 2

\* nat.sticky: 1 if a bit of a below bit n is set, else 0
NatSticky(a, n) ==
    IF \/ \E l \in 1..Len(a) : l <= n \div LimbBits /\ a[l] # 0
       \/ (n \div LimbBits < Len(a) /\ a[n \div LimbBits + 1] % 2^(n % LimbBits) # 0)
    THEN 1 ELSE 0

\* nat.bitLen
NatBitLen(a) ==
    IF a = <<>> THEN 0
    ELSE (Len(a) - 1) * LimbBits
         + (CHOOSE n \in 1..LimbBits : 2^(n - 1) <= a[Len(a)] /\ a[Len(a)] < 2^n)

RECURSIVE NatDigits(_)
\* nat.utoa(10): the decimal digits, most significant first (none for 0),
\* four digits at a time
NatDigits(a) ==
    LET dm == NatDivSmall(a, 10^4)
        four == <<dm.r \div 1000, (dm.r \div 100) % 10, (dm.r \div 10) % 10, dm.r % 10>>
        first == CHOOSE i \in 1..4 : four[i] # 0 /\ \A j \in 1..(i - 1) : four[j] = 0
    IN  IF a = <<>> THEN <<>>
        ELSE IF dm.q = <<>> THEN SubSeq(four, first, 4)
        ELSE NatDigits(dm.q) \o four

\* 10^k: big.NewInt(1e3) as well as Exp(big.NewInt(10), big.NewInt(18), nil)
Pow10(k) == NatMulPow(<<1>>, 10, k)

\* a *big.Int: nil, or a sign and a magnitude
BigInt(neg, abs) == [isNil |-> FALSE, neg |-> neg, abs |-> abs]

\* the nil *big.Int
NilInt == [isNil |-> TRUE, neg |-> FALSE, abs |-> <<>>]

\* the value of a *big.Int as an integer of the model; the integers that
\* leave the limbs stay below 2^31
IntOf(x) ==
    LET limb(i) == IF i <= Len(x.abs) THEN x.abs[i] ELSE 0
    IN  CASE Len(x.abs) <= 3 ->
                (IF x.neg THEN -1 ELSE 1) * (limb(1) + limb(2) * LimbBase + limb(3) * LimbBase * LimbBase)

\* the larger of two integers
Max(x, y) == IF x >= y THEN x ELSE y

\* the smaller of two integers
Min(x, y) == IF x <= y THEN x ELSE y

(* A big.Float is zero, infinite or finite; a finite one has the value    *)
(* mant * 2^exp and a precision of prec bits.  The rounding mode of       *)
(* new(big.Float) is ToNearestEven.                                       *)

Float(form, neg, mant, exp, prec) ==
    [form |-> form, neg |-> neg, mant |-> mant, exp |-> exp, prec |-> prec]

\* the precision a big.Float of precision 0 takes when it is set
FloatDefaultPrec == 64

\* Float.round: mant * 2^exp, with a sticky bit for what was already lost
\* below it, rounded to prec bits, to nearest and to even on a tie
FloatRound(neg, m, e, prec, sbit) ==
    IF NatBitLen(m) <= prec THEN Float("finite", neg, m, e, prec)
    ELSE LET drop == NatBitLen(m) - prec
             q == NatShr(m, drop)
             rest == sbit = 1 \/ NatSticky(m, drop - 1) = 1
             up == NatBit(m, drop - 1) = 1 /\ (rest \/ NatBit(q, 0) = 1)
         IN  Float("finite", neg, IF up THEN NatAdd(q, <<1>>) ELSE q, e + drop, prec)

\* new(big.Float).SetInt(x): exact, the precision is max(x.BitLen(), 64)
FloatSetInt(x) ==
    IF x.abs = <<>> THEN Float("zero", x.neg, <<>>, 0, FloatDefaultPrec)
    ELSE Float("finite", x.neg, x.abs, 0, Max(NatBitLen(x.abs), FloatDefaultPrec))

\* z.Mul(x, y) for a z of precision zprec: a z of precision 0, as
\* new(big.Float) is, takes the larger precision of the operands;
\* multiplying zero with an infinity panics
FloatMul(zprec, x, y) ==
    LET neg == x.neg # y.neg
        prec == IF zprec = 0 THEN Max(x.prec, y.prec) ELSE zprec
    IN  IF x.form = "finite" /\ y.form = "finite"
        THEN FloatRound(neg, NatMul(x.mant, y.mant), x.exp + y.exp, prec, 0)
        ELSE IF (x.form = "zero" /\ y.form = "inf") \/ (x.form = "inf" /\ y.form = "zero")
        THEN Float("panic", neg, <<>>, 0, prec)
        ELSE IF x.form = "inf" \/ y.form = "inf" THEN Float("inf", neg, <<>>, 0, prec)
        ELSE Float("zero", neg, <<>>, 0, prec)

\* z.Quo(x, y) for a z of precision zprec (0: the larger precision of the
\* operands): the quotient is computed to more than prec bits, the remainder
\* is the sticky bit; 0/0 and Inf/Inf panic
FloatQuo(zprec, x, y) ==
    LET neg == x.neg # y.neg
        prec == IF zprec = 0 THEN Max(x.prec, y.prec) ELSE zprec
        s == Max(0, prec + 2 + NatBitLen(y.mant) - NatBitLen(x.mant))
        dm == NatDiv(NatShl(x.mant, s), y.mant)
    IN  IF x.form = "finite" /\ y.form = "finite"
        THEN FloatRound(neg, dm.q, x.exp - y.exp - s, prec, IF dm.r = <<>> THEN 0 ELSE 1)
        ELSE IF (x.form = "zero" /\ y.form = "zero") \/ (x.form = "inf" /\ y.form = "inf")
        THEN Float("panic", neg, <<>>, 0, prec)
        ELSE IF x.form = "zero" \/ y.form = "inf" THEN Float("zero", neg, <<>>, 0, prec)
        ELSE Float("inf", neg, <<>>, 0, prec)

\* x.Int(nil): x truncated towards zero; nil for an infinity
FloatInt(x) ==
    IF x.form = "inf" THEN NilInt
    ELSE IF x.form = "zero" THEN BigInt(FALSE, <<>>)
    ELSE LET abs == IF x.exp >= 0 THEN NatShl(x.mant, x.exp) ELSE NatShr(x.mant, -x.exp)
         IN  BigInt(x.neg /\ abs # <<>>, abs)

(* Float.SetString(s) is Parse(s, 0):                                     *)
(*   number   = [ sign ] ( float | "inf" | "Inf" )                        *)
(*   float    = ( mantissa | prefix pmantissa ) [ exponent ]              *)
(*   prefix   = "0" [ "b" | "B" | "o" | "O" | "x" | "X" ]                 *)
(*   exponent = ( "e" | "E" | "p" | "P" ) [ sign ] digits                 *)
(* with "_" allowed between digits.                                       *)

DecimalChars == <<"0", "1", "2", "3", "4", "5", "6", "7", "8", "9">>

\* the position of a character in a text, 0 if it is not there
IndexOf(chars, ch) ==
    IF \E i \in 1..Len(chars) : chars[i] = ch
    THEN CHOOSE i \in 1..Len(chars) : chars[i] = ch
    ELSE 0

\* the digit value nat.scan gives a character; one that is no digit or
\* letter gets MaxBase + 1
ScanDigitValue(ch) ==
    LET lower == <<"a", "b", "c", "d", "e", "f", "g", "h", "i", "j", "k", "l", "m",
                   "n", "o", "p", "q", "r", "s", "t", "u", "v", "w", "x", "y", "z">>
        upper == <<"A", "B", "C", "D", "E", "F", "G", "H", "I", "J", "K", "L", "M",
                   "N", "O", "P", "Q", "R", "S", "T", "U", "V", "W", "X", "Y", "Z">>
    IN  IF IndexOf(DecimalChars, ch) > 0 THEN IndexOf(DecimalChars, ch) - 1
        ELSE IF IndexOf(lower, ch) > 0 THEN IndexOf(lower, ch) + 9
        ELSE IF IndexOf(upper, ch) > 0 THEN IndexOf(upper, ch) + 9
        ELSE 63

\* z.mant.scan(r, 0, true): the base from the prefix, the mantissa digits
\* with at most one point; fcount is minus the number of fractional digits.
\* In the digit loop st.prev is "0" after a digit, "_" after a separator and
\* "." after anything else; st.rest is what the loop did not consume
NatScan(s) ==
    LET hasZero == s # <<>> /\ Head(s) = "0"
        pch == IF hasZero /\ Len(s) >= 2 THEN s[2] ELSE ""
        b == IF pch \in {"b", "B"} THEN 2
             ELSE IF pch \in {"o", "O"} THEN 8
             ELSE IF pch \in {"x", "X"} THEN 16
             ELSE 10
        RECURSIVE Loop(_, _)
        Loop(t, st) ==
            IF t = <<>> THEN [st EXCEPT !.rest = t]
            ELSE IF st.fracOk /\ Head(t) = "."
            THEN Loop(Tail(t), [st EXCEPT !.fracOk = FALSE,
                                          !.invalSep = @ \/ st.prev = "_",
                                          !.prev = ".", !.dp = st.count])
            ELSE IF Head(t) = "_"
            THEN Loop(Tail(t), [st EXCEPT !.invalSep = @ \/ st.prev # "0", !.prev = "_"])
            ELSE IF ScanDigitValue(Head(t)) >= b THEN [st EXCEPT !.rest = t]
            ELSE Loop(Tail(t),
                      [st EXCEPT !.prev = "0", !.count = @ + 1,
                                 !.acc = NatAdd(NatMulSmall(@, b),
                                                NatFromInt(ScanDigitValue(Head(t))))])
        start == [acc |-> <<>>, count |-> IF hasZero /\ b = 10 THEN 1 ELSE 0, dp |-> -1,
                  fracOk |-> TRUE, prev |-> IF hasZero THEN "0" ELSE ".",
                  invalSep |-> FALSE, rest |-> <<>>]
        body == IF b # 10 THEN SubSeq(s, 3, Len(s)) ELSE IF hasZero THEN Tail(s) ELSE s
        Scanned(st) ==
            [mant |-> st.acc, b |-> b,
             fcount |-> IF st.dp >= 0 THEN st.dp - st.count ELSE st.count,
             err |-> st.invalSep \/ st.prev = "_" \/ st.count = 0,
             rest |-> st.rest]
    IN  Scanned(Loop(body, start))

\* scanExponent(r, true, true): an "e" exponent is decimal, a "p" exponent
\* binary; without an exponent character nothing is consumed
ScanExponent(s) ==
    LET RECURSIVE Digits(_, _)
        Digits(u, st) ==
            IF u = <<>> THEN [st EXCEPT !.rest = u]
            ELSE IF IndexOf(DecimalChars, Head(u)) > 0
            THEN Digits(Tail(u), [st EXCEPT !.val = 10 * @ + IndexOf(DecimalChars, Head(u)) - 1,
                                            !.prev = "0", !.hasDigits = TRUE])
            ELSE IF Head(u) = "_"
            THEN Digits(Tail(u), [st EXCEPT !.invalSep = @ \/ st.prev # "0", !.prev = "_"])
            ELSE [st EXCEPT !.rest = u]
    IN  IF s = <<>> \/ Head(s) \notin {"e", "E", "p", "P"}
        THEN [exp |-> 0, base |-> 10, err |-> FALSE, rest |-> s]
        ELSE LET t == Tail(s)
                 signed == t # <<>> /\ Head(t) \in {"+", "-"}
                 st == Digits(IF signed THEN Tail(t) ELSE t,
                              [val |-> 0, hasDigits |-> FALSE, prev |-> ".",
                               invalSep |-> FALSE, rest |-> <<>>])
             IN  [exp |-> IF signed /\ Head(t) = "-" THEN -st.val ELSE st.val,
                  base |-> IF Head(s) \in {"e", "E"} THEN 10 ELSE 2,
                  err |-> ~st.hasDigits \/ st.invalSep \/ st.prev = "_",
                  rest |-> st.rest]

\* Float.scan(r, 0) on a Float of precision 0: sign, mantissa, exponent;
\* the value is mant * 2^exp2 * 5^exp5 rounded once to 64 bits; pow5(k) is
\* 5^k at 64 bits more, exact up to 5^55
FloatScan(s) ==
    LET neg == s # <<>> /\ Head(s) = "-"
        body == IF s # <<>> /\ Head(s) \in {"+", "-"} THEN Tail(s) ELSE s
        pow5(k) == FloatRound(FALSE, NatMulPow(<<1>>, 5, k), 0, FloatDefaultPrec + 64, 0)
        failed == [err |-> TRUE, rest |-> <<>>, f |-> Float("zero", FALSE, <<>>, 0, 0)]
        Value(mant, exp2, exp5) ==
            IF mant = <<>> THEN Float("zero", neg, <<>>, 0, FloatDefaultPrec)
            ELSE IF exp5 = 0 THEN FloatRound(neg, mant, exp2, FloatDefaultPrec, 0)
            ELSE IF exp5 < 0
            THEN FloatQuo(FloatDefaultPrec, Float("finite", neg, mant, exp2, FloatDefaultPrec),
                          pow5(-exp5))
            ELSE FloatMul(FloatDefaultPrec, Float("finite", neg, mant, exp2, FloatDefaultPrec),
                          pow5(exp5))
        Exponents(m, x, d) ==
            IF m.err \/ x.err THEN failed
            ELSE [err |-> FALSE, rest |-> x.rest,
                  f |-> Value(m.mant,
                              (IF m.b = 8 THEN d * 3 ELSE IF m.b = 16 THEN d * 4 ELSE d) + x.exp,
                              (IF m.b = 10 THEN d ELSE 0) + (IF x.base = 10 THEN x.exp ELSE 0))]
        Mantissa(m) == Exponents(m, ScanExponent(m.rest), IF m.fcount < 0 THEN m.fcount ELSE 0)
    IN  IF s = <<>> THEN failed ELSE Mantissa(NatScan(body))

\* new(big.Float).SetString(s): Parse(s, 0) accepts the infinities, and
\* otherwise what scan accepts when it consumes the whole string
FloatSetString(s) ==
    LET infs == {<<"I", "n", "f">>, <<"i", "n", "f">>}
        Scanned(sc) == [ok |-> ~sc.err /\ sc.rest = <<>>, f |-> sc.f]
    IN  IF s \in infs THEN [ok |-> TRUE, f |-> Float("inf", FALSE, <<>>, 0, 0)]
        ELSE IF Len(s) = 4 /\ s[1] \in {"+", "-"} /\ Tail(s) \in infs
        THEN [ok |-> TRUE, f |-> Float("inf", s[1] = "-", <<>>, 0, 0)]
        ELSE Scanned(FloatScan(s))

(* Float.String() is Text('g', 10): the decimal expansion of the value,   *)
(* rounded to 10 significant digits, in %e or %f form.                    *)
(* A decimal is 0.mant * 10^exp with mant a sequence of digits.  Go holds *)
(* the whole expansion; Text('g', 10) reads its first 11 digits and       *)
(* whether it ends there, so a decimal here holds the leading digits of   *)
(* the expansion (all of them, or 12 and more) and, in more, whether a    *)
(* digit other than 0 follows them.                                       *)

RECURSIVE TrimZeros(_)
\* decimal trim: drop the trailing zero digits
TrimZeros(ds) ==
    IF ds = <<>> \/ ds[Len(ds)] # 0 THEN ds ELSE TrimZeros(SubSeq(ds, 1, Len(ds) - 1))

\* the digits of the expansion that are kept when it does not end
DecimalKept == 12

\* decimal.init(m, shift): the decimal expansion of m * 2^shift, for m # 0.
\* j is such that m * 2^shift * 10^j >= 10^(DecimalKept - 1):
\* 2^37 > 10^11 and log10(2) < 30103 / 100000
DecimalInit(m, shift) ==
    LET Digits(j, ds, more) ==
            [mant |-> IF more THEN ds ELSE TrimZeros(ds), exp |-> Len(ds) - j, more |-> more]
        Scaled(j, n) ==
            Digits(j, NatDigits(IF shift >= 0 THEN NatShl(n, shift) ELSE NatShr(n, -shift)),
                   shift < 0 /\ NatSticky(n, -shift) = 1)
        Scale(j) == Scaled(j, NatMulPow(m, 10, j))
        Top(bits) ==
            Scale(IF bits >= 38 THEN 0
                  ELSE DecimalKept + 1 + (Max(0, 1 - bits) * 30103) \div 100000)
    IN  Top(NatBitLen(m) + shift)

\* decimal.round(n): to n digits, for n < DecimalKept - 1.  shouldRoundUp
\* rounds to even on exactly half; roundUp adds one to the last of the
\* first k digits
DecimalRound(d, n) ==
    LET shouldRoundUp ==
            IF d.mant[n + 1] = 5 /\ n + 1 = Len(d.mant) /\ ~d.more
            THEN n > 0 /\ d.mant[n] % 2 # 0
            ELSE d.mant[n + 1] >= 5
        RECURSIVE RoundUp(_)
        RoundUp(k) ==
            IF k = 0 THEN [mant |-> <<1>>, exp |-> d.exp + 1, more |-> FALSE]
            ELSE IF d.mant[k] >= 9 THEN RoundUp(k - 1)
            ELSE [mant |-> [SubSeq(d.mant, 1, k) EXCEPT ![k] = @ + 1], exp |-> d.exp,
                  more |-> FALSE]
    IN  IF n < 0 \/ n >= Len(d.mant) THEN d
        ELSE IF shouldRoundUp THEN RoundUp(n)
        ELSE [mant |-> TrimZeros(SubSeq(d.mant, 1, n)), exp |-> d.exp, more |-> FALSE]

\* the characters of a sequence of digits
DigitText(ds) == [i \in 1..Len(ds) |-> DecimalChars[ds[i] + 1]]

\* n zero characters
ZeroText(n) == [i \in 1..n |-> "0"]

\* fmtE: d.ddde+dd, with prec digits after the point
FmtE(prec, d) ==
    LET first == IF d.mant = <<>> THEN <<"0">> ELSE <<DecimalChars[d.mant[1] + 1]>>
        m == Min(Len(d.mant), prec + 1)
        more == IF prec > 0
                THEN <<".">> \o DigitText(SubSeq(d.mant, 2, m)) \o ZeroText(prec - Max(m, 1) + 1)
                ELSE <<>>
        e == IF d.mant = <<>> THEN 0 ELSE d.exp - 1
        mag == IF e < 0 THEN -e ELSE e
    IN  first \o more \o <<"e", IF e < 0 THEN "-" ELSE "+">>
        \o (IF mag < 10 THEN <<"0">> ELSE <<>>)
        \o (IF mag = 0 THEN <<"0">> ELSE DigitText(NatDigits(NatFromInt(mag))))

\* fmtF: ddd.ddd, with prec digits after the point; a digit outside the
\* decimal is "0"
FmtF(prec, d) ==
    LET m == Min(Len(d.mant), d.exp)
        at(i) == IF 0 <= i /\ i < Len(d.mant) THEN DecimalChars[d.mant[i + 1] + 1] ELSE "0"
        int == IF d.exp > 0 THEN DigitText(SubSeq(d.mant, 1, m)) \o ZeroText(d.exp - m)
               ELSE <<"0">>
        frac == IF prec > 0 THEN <<".">> \o [i \in 1..prec |-> at(d.exp + i - 1)]
                ELSE <<>>
    IN  int \o frac

\* the number of significant digits of Float.String()
StringPrec == 10

\* x.String(), that is x.Text('g', 10)
FloatString(x) ==
    LET sign == IF x.neg THEN <<"-">> ELSE <<>>
        Format(d, eprec) ==
            IF d.exp - 1 < -4 \/ d.exp - 1 >= eprec
            THEN sign \o FmtE(Min(StringPrec, Len(d.mant)) - 1, d)
            ELSE sign \o FmtF(Max((IF StringPrec > d.exp THEN Len(d.mant) ELSE StringPrec)
                                   - d.exp, 0), d)
        Rounded(d) ==
            Format(d, IF StringPrec > Len(d.mant) /\ Len(d.mant) >= d.exp THEN Len(d.mant)
                      ELSE StringPrec)
    IN  IF x.form = "inf" THEN (IF x.neg THEN <<"-">> ELSE <<"+">>) \o <<"I", "n", "f">>
        ELSE Rounded(DecimalRound(IF x.form = "finite" THEN DecimalInit(x.mant, x.exp)
                                  ELSE [mant |-> <<>>, exp |-> 0, more |-> FALSE],
                                  StringPrec))

(* ---------------------------------------------------------------------- *)
(* Unit conversions                                                       *)
(* ---------------------------------------------------------------------- *)

\* the switch of ToWei with the gwei names in the branch of 1e6
ToWeiExponentMutGweiAsMwei(unit) ==
    CASE unit = "wei" -> 0
      [] unit \in {"kwei", "babbage", "femtoether"} -> 3
      [] unit \in {"mwei", "lovelace", "picoether", "gwei", "shannon", "nanoether", "nano"} -> 6
      [] unit \in {"szabo", "microether", "micro"} -> 12
      [] unit \in {"finney", "milliether", "milli"} -> 15
      [] unit \in {"ether", "eth"} -> 18
      [] unit \in {"kether", "grand"} -> 21
      [] unit = "mether" -> 24
      [] unit = "gether" -> 27
      [] unit = "tether" -> 30
      [] OTHER -> -1

\* the switch of ToWei over the unit: the power of ten of the multiplier,
\* -1 for the default branch
ToWeiExponent(unit) ==
    CASE unit = "wei" -> 0
      [] unit \in {"kwei", "babbage", "femtoether"} -> 3
      [] unit \in {"mwei", "lovelace", "picoether"} -> 6
      [] unit \in {"gwei", "shannon", "nanoether", "nano"} -> 9
      [] unit \in {"szabo", "microether", "micro"} -> 12
      [] unit \in {"finney", "milliether", "milli"} -> 15
      [] unit \in {"ether", "eth"} -> 18
      [] unit \in {"kether", "grand"} -> 21
      [] unit = "mether" -> 24
      [] unit = "gether" -> 27
      [] unit = "tether" -> 30
      [] OTHER -> -1

\* the switch of FromWei over the unit: the power of ten of the divisor,
\* -1 for the default branch
FromWeiExponent(unit) ==
    CASE unit = "wei" -> 0
      [] unit \in {"kwei", "babbage", "femtoether"} -> 3
      [] unit \in {"mwei", "lovelace", "picoether"} -> 6
      [] unit \in {"gwei", "shannon", "nanoether", "nano"} -> 9
      [] unit \in {"szabo", "microether", "micro"} -> 12
      [] unit \in {"finney", "milliether", "milli"} -> 15
      [] unit \in {"ether", "eth"} -> 18
      [] unit \in {"kether", "grand"} -> 21
      [] unit = "mether" -> 24
      [] unit = "gether" -> 27
      [] unit = "tether" -> 30
      [] OTHER -> -1

\* what a conversion returns: ToWei a *big.Int, FromWei a string, both an
\* error ("" is nil)
ConvOut(wei, text, err) == [wei |-> wei, text |-> text, err |-> err]

\* ToWei(value, unit)
ToWei(value, unit) ==
    LET Parsed(val, ok, exponent) ==
            IF ~ok THEN ConvOut(NilInt, <<>>, "invalid value")
            ELSE IF exponent < 0 THEN ConvOut(NilInt, <<>>, "unknown unit")
            ELSE ConvOut(FloatInt(FloatMul(0, val, FloatSetInt(BigInt(FALSE, Pow10(exponent))))),
                         <<>>, "")
        SetString(r) == Parsed(r.f, r.ok, ToWeiExponent(unit))
    IN  SetString(FloatSetString(value))

\* FromWei(wei, unit)
FromWei(wei, unit) ==
    LET Switch(exponent) ==
            IF wei.isNil THEN ConvOut(NilInt, <<"0">>, "")
            ELSE IF exponent < 0 THEN ConvOut(NilInt, <<>>, "unknown unit")
            ELSE ConvOut(NilInt,
                         FloatString(FloatQuo(0, FloatSetInt(wei),
                                              FloatSetInt(BigInt(FALSE, Pow10(exponent))))),
                         "")
    IN  Switch(FromWeiExponent(unit))

\* an amount as the caller writes and reads it: nil, or the decimal text of
\* a *big.Int
Amount(dec) == [isNil |-> FALSE, dec |-> dec]

\* the nil amount
NilAmount == [isNil |-> TRUE, dec |-> <<>>]

\* the amount a *big.Int is read as: x.String() unless x is nil
AmountOf(x) ==
    IF x.isNil THEN NilAmount
    ELSE IF x.abs = <<>> THEN Amount(<<"0">>)
    ELSE Amount((IF x.neg THEN <<"-">> ELSE <<>>) \o DigitText(NatDigits(x.abs)))

\* new(big.Int).SetString(dec, 10) of the decimal text of an amount, four
\* digits at a time
BigIntOf(amount) ==
    LET RECURSIVE DecimalNat(_)
        DecimalNat(s) ==
            LET n == Len(s)
                dv(i) == IF i >= 1 THEN ScanDigitValue(s[i]) ELSE 0
                low == dv(n) + 10 * dv(n - 1) + 100 * dv(n - 2) + 1000 * dv(n - 3)
            IN  IF n <= 4 THEN NatFromInt(low)
                ELSE NatAdd(NatMulSmall(DecimalNat(SubSeq(s, 1, n - 4)), 10^4), NatFromInt(low))
        neg == Head(amount.dec) = "-"
        abs == DecimalNat(IF neg THEN Tail(amount.dec) ELSE amount.dec)
    IN  IF amount.isNil THEN NilInt ELSE BigInt(neg /\ abs # <<>>, abs)

\* what the caller of a conversion gets back
Returns(out) == [wei |-> AmountOf(out.wei), text |-> out.text, err |-> out.err]

\* nothing was returned yet
NoReturn == [wei |-> NilAmount, text |-> <<>>, err |-> ""]

\* the arguments of a conversion that is about to run
ConvArgs(fn, value, amount, unit) ==
    [fn |-> fn, pc |-> "args", value |-> value, amount |-> amount, unit |-> unit,
     out |-> NoReturn]

\* nothing is converted
NoConv ==
    [fn |-> "", pc |-> "idle", value |-> <<>>, amount |-> NilAmount, unit |-> "",
     out |-> NoReturn]

(* ---------------------------------------------------------------------- *)
(* The typed Ethereum methods that return a hex quantity                  *)
(* ---------------------------------------------------------------------- *)

\* new(big.Int).SetString(s, base) for a base from 2 to 36: an optional
\* sign, then the longest run of digits of the base.  ok is what SetString
\* returns (a digit was read and nothing is left over); z is the receiver
\* afterwards, which keeps what the scanner read when SetString fails, 0 when
\* it read no digit
IntSetString(s, base) ==
    LET neg == s # <<>> /\ Head(s) = "-"
        body == IF s # <<>> /\ Head(s) \in {"+", "-"} THEN Tail(s) ELSE s
        RECURSIVE Loop(_, _)
        Loop(t, st) ==
            IF t = <<>> \/ ScanDigitValue(Head(t)) >= base THEN [st EXCEPT !.rest = t]
            ELSE \* (the state after the digit is bound as a value)
                 CHOOSE r \in {Loop(Tail(t), next) :
                                  next \in {[st EXCEPT !.count = @ + 1,
                                                       !.acc = NatAdd(NatMulSmall(@, base),
                                                                      NatFromInt(ScanDigitValue(Head(t))))]}} :
                    TRUE
        Scanned(st) ==
            [z |-> BigInt(neg /\ st.acc # <<>>, st.acc),
             ok |-> st.count > 0 /\ st.rest = <<>>]
    IN  Scanned(Loop(body, [acc |-> <<>>, count |-> 0, rest |-> <<>>]))

\* x.Uint64() of a *big.Int: the low 64 bits of the absolute value (the
\* documentation leaves the result undefined for a value outside uint64;
\* math/big returns the low bits), as an integer of the model
Uint64(x) ==
    LET low == [i \in 1..Min(Len(x.abs), 5) |-> IF i = 5 THEN x.abs[i] % 2^4 ELSE x.abs[i]]
    IN  IntOf(BigInt(FALSE, NatNorm(low)))

\* the body shared by the methods that return a hex quantity, after the
\* Call succeeded: unmarshal, hexValue[2:] (a slice out of range panics for
\* a string shorter than 2), SetString with its results dropped
HexQuantity(raw) ==
    LET u == JsonUnmarshalString(raw) IN
    IF ~u.ok THEN [st |-> "err", z |-> BigInt(FALSE, <<>>)]
    ELSE IF Len(u.s) < 2 THEN [st |-> "panic", z |-> BigInt(FALSE, <<>>)]
    ELSE [st |-> "ok", z |-> IntSetString(SubSeq(u.s, 3, Len(u.s)), 16).z]

\* a typed method that returns a hex quantity, from the frame of its
\* returned Call: the Call's error is passed on unwrapped; z is the
\* *big.Int the method holds before it returns
QuantityMethod(c, what) ==
    IF c.err.kind # "nil" THEN [st |-> "err", z |-> BigInt(FALSE, <<>>), err |-> c.err]
    ELSE CHOOSE ret \in {[st |-> q.st, z |-> q.z,
                           err |-> IF q.st = "err" THEN Wrap(what, MkErr("decode")) ELSE NoErr] :
                              q \in {HexQuantity(c.result)}} : TRUE

\* Eth.EstimateGas: (uint64, error), return gasEstimate.Uint64(), nil
EstimateGas(c) ==
    CHOOSE ret \in {[st |-> q.st, v |-> Uint64(q.z), err |-> q.err] :
                       q \in {QuantityMethod(c, "failed to unmarshal gas estimate")}} : TRUE

\* Eth.GetGasPrice: (*big.Int, error)
GetGasPrice(c) ==
    CHOOSE ret \in {[st |-> q.st, v |-> IntOf(q.z), err |-> q.err] :
                       q \in {QuantityMethod(c, "failed to unmarshal gas price")}} : TRUE

\* Eth.GetTransactionCount: (uint64, error), return nonce.Uint64(), nil
GetTransactionCount(c) ==
    CHOOSE ret \in {[st |-> q.st, v |-> Uint64(q.z), err |-> q.err] :
                       q \in {QuantityMethod(c, "failed to unmarshal transaction count")}} : TRUE

(* ---------------------------------------------------------------------- *)
(* Operation frames                                                       *)
(* ---------------------------------------------------------------------- *)

Recipient == "0xRecipient"

TxHash == <<"0", "x", "a", "b">>

Bytecode == <<"60", "80">>

ConstructorArgs == <<"2a">>

\* the frame of an operation a goroutine runs.  entry is the function the
\* caller invoked, name the function now running (DeployContract ends in a
\* tail call of SendTransaction); to, value, gasLimit, gasPrice and data are
\* the TransferOptions (or DeployContract's arguments); st, val and err are
\* what the operation returned: st is "ok", "err" or "panic", val the
\* returned value as a raw JSON value (RawNil for a nil pointer); prev is what
\* an earlier SendTransaction with the same opts returned to the caller
IdleOp ==
    [entry |-> "", name |-> "", pc |-> "idle", to |-> "", value |-> 0,
     gasLimit |-> 0, gasPriceNil |-> TRUE, gasPrice |-> 0, data |-> <<>>,
     nonce |-> 0, signed |-> NoSigned, polls |-> 0,
     st |-> "none", val |-> RawNil, err |-> NoErr,
     prev |-> [st |-> "none", err |-> NoErr]]

Finish(f, st, val, err) == [f EXCEPT !.pc = "done", !.st = st, !.val = val, !.err = err]

\* the RPC method of the Call made at a call site
MethodAt(pc) ==
    CASE pc = "call" -> "web3_clientVersion"
      [] pc = "poll" -> "eth_getTransactionReceipt"
      [] pc \in {"estimate", "dEstimate"} -> "eth_estimateGas"
      [] pc \in {"gasPrice", "dGasPrice"} -> "eth_gasPrice"
      [] pc = "nonce" -> "eth_getTransactionCount"
      [] pc = "sendRaw" -> "eth_sendRawTransaction"

CallSites == {"call", "poll", "estimate", "dEstimate", "gasPrice", "dGasPrice",
              "nonce", "sendRaw"}

BufferedGasMutNoBuffer(gasEstimate, pct) == gasEstimate

\* gasEstimate + (gasEstimate * pct / 100) in uint64 (the estimates of the
\* model stay below the overflow of the product)
BufferedGas(gasEstimate, pct) == gasEstimate + ((gasEstimate * pct) \div 100)

EnterSendTransactionMutAlwaysEstimate(f) ==
    [f EXCEPT !.name = "SendTransaction", !.pc = "estimate"]

\* SendTransaction from its first statement to its first Call
EnterSendTransaction(f) ==
    [f EXCEPT !.name = "SendTransaction",
              !.pc = IF f.gasLimit = 0 THEN "estimate"
                     ELSE IF f.gasPriceNil THEN "gasPrice" ELSE "nonce"]

\* DeployContract from its first statement to its first Call
EnterDeployContract(f) ==
    IF f.gasLimit = 0 THEN [f EXCEPT !.name = "DeployContract", !.pc = "dEstimate"]
    ELSE IF f.gasPriceNil THEN [f EXCEPT !.name = "DeployContract", !.pc = "dGasPrice"]
    ELSE EnterSendTransaction([f EXCEPT !.to = "", !.value = 0])

(* ---------------------------------------------------------------------- *)
(* The node                                                               *)
(* ---------------------------------------------------------------------- *)

\* the result members the node may put in a response to a method
NodeResults(method) ==
    CASE method = "eth_getTransactionReceipt" ->
            IF mined THEN {RawObject(<<"0", "x", "1">>), RawObject(<<"0", "x", "0">>)}
            ELSE {RawNull}
      [] method = "eth_estimateGas" ->
            {NodeQuantity(21000), NodeQuantity(0), RawNull, RawString(<<"0">>),
             RawString(<<"0", "x", "z", "z">>),
             RawString(<<"0", "x", "1", "0", "0", "0", "0", "0", "0", "0", "0", "0", "0", "0",
                         "0", "0", "5", "2", "0", "8">>)}
      [] method = "eth_gasPrice" -> {NodeQuantity(1000000000), RawNumber}
      [] method = "eth_getTransactionCount" -> {NodeQuantity(Len(sentRaw))}
      [] method = "eth_sendRawTransaction" -> {RawString(TxHash)}
      [] OTHER -> {RawString(<<"g", "e", "t", "h">>), RawNull, RawNil}

\* the response bodies a Call of the method may read for the request id: a
\* body that is not JSON, the envelopes that answer the request, and an
\* envelope that carries a result under another id
Bodies(method, id) ==
    {MkBody(0, FALSE, RawNil, "absent", NoServerError)}
    \cup {MkBody(id, TRUE, r, m, NoServerError) : r \in NodeResults(method), m \in {"absent", "null"}}
    \cup {MkBody(id, TRUE, r, "object", e) : r \in NodeResults(method) \cup {RawNil}, e \in ServerErrors}
    \cup {MkBody(id + 1, TRUE, r, "absent", NoServerError) :
              r \in {x \in NodeResults(method) : x.t = "string"}}

(* ---------------------------------------------------------------------- *)
(* Initial state                                                          *)
(* ---------------------------------------------------------------------- *)

\* the state after construction, but for the conversions
InitProgram ==
    /\ idCounter = NewClient
    /\ call = [p \in Procs |-> NoCall]
    /\ op = [p \in Procs |-> IdleOp]
    /\ ctxDone = [p \in Procs |-> FALSE]
    /\ mined = FALSE
    /\ started = <<>>
    /\ sentRaw = <<>>
    /\ txParams = NewTransactionParams
    /\ eip1559Params = NewEIP1559TransactionParams
    /\ signOut = NoSignOut

Init ==
    /\ InitProgram
    /\ conv = NoConv

(* ---------------------------------------------------------------------- *)
(* Environment                                                            *)
(* ---------------------------------------------------------------------- *)

\* the caller cancels the context it gave to the operation of goroutine p
Cancel(p) ==
    /\ ~ctxDone[p]
    /\ ctxDone' = [ctxDone EXCEPT ![p] = TRUE]
    /\ UNCHANGED <<pureVars, idCounter, call, op, mined, started, sentRaw>>

\* the watched transaction is included in a block
Mine ==
    /\ ~mined
    /\ mined' = TRUE
    /\ UNCHANGED <<pureVars, idCounter, call, op, ctxDone, started, sentRaw>>

\* goroutine p calls client.Call(ctx, method, params) directly
StartCall(p) ==
    /\ op[p].pc = "idle"
    /\ op' = [op EXCEPT ![p] = [IdleOp EXCEPT !.entry = "Call", !.name = "Call", !.pc = "call"]]
    /\ UNCHANGED <<pureVars, idCounter, call, ctxDone, mined, started, sentRaw>>

\* goroutine p calls wallet.WaitForTransaction(ctx, txHash)
StartWaitForTransaction(p) ==
    /\ op[p].pc = "idle"
    /\ op' = [op EXCEPT ![p] = [IdleOp EXCEPT !.entry = "WaitForTransaction",
                                             !.name = "WaitForTransaction",
                                             !.pc = "select"]]
    /\ UNCHANGED <<pureVars, idCounter, call, ctxDone, mined, started, sentRaw>>

\* goroutine p calls wallet.SendTransaction(ctx, opts)
StartSendTransaction(p) ==
    /\ op[p].pc = "idle"
    /\ \E to \in {"", Recipient}, gl \in {0, 21000}, gpNil \in BOOLEAN :
          op' = [op EXCEPT ![p] =
                    EnterSendTransaction([IdleOp EXCEPT !.entry = "SendTransaction",
                                                        !.to = to, !.value = 1,
                                                        !.gasLimit = gl,
                                                        !.gasPriceNil = gpNil,
                                                        !.gasPrice = IF gpNil THEN 0 ELSE 2])]
    /\ UNCHANGED <<pureVars, idCounter, call, ctxDone, mined, started, sentRaw>>

\* goroutine p calls wallet.DeployContract(ctx, bytecode, constructorData,
\* gasLimit, gasPrice)
StartDeployContract(p) ==
    /\ op[p].pc = "idle"
    /\ \E gl \in {0, 500000}, gpNil \in BOOLEAN :
          op' = [op EXCEPT ![p] =
                    EnterDeployContract([IdleOp EXCEPT !.entry = "DeployContract",
                                                       !.gasLimit = gl,
                                                       !.gasPriceNil = gpNil,
                                                       !.gasPrice = IF gpNil THEN 0 ELSE 2,
                                                       !.data = Bytecode \o ConstructorArgs])]
    /\ UNCHANGED <<pureVars, idCounter, call, ctxDone, mined, started, sentRaw>>

(* ---------------------------------------------------------------------- *)
(* Client.Call                                                            *)
(* ---------------------------------------------------------------------- *)

\* Client.Call up to http.NewRequestWithContext: the id is taken from the
\* counter, the envelope is marshalled (only a caller of Call itself can
\* pass params that do not marshal)
CallBegin(p) ==
    /\ call[p].pc = "none"
    /\ op[p].pc \in CallSites
    /\ LET id == AtomicAddUint64(idCounter, 1)
           c == [NoCall EXCEPT !.id = id, !.method = MethodAt(op[p].pc)]
       IN /\ idCounter' = id
          /\ started' = Append(started, [proc |-> p, id |-> id])
          /\ \E marshals \in (IF op[p].name = "Call" THEN BOOLEAN ELSE {TRUE}) :
                call' = [call EXCEPT ![p] =
                            IF marshals THEN [c EXCEPT !.pc = "send"]
                            ELSE Returned(c, RawNil, MkErr("marshal"), FALSE)]
    /\ UNCHANGED <<pureVars, op, ctxDone, mined, sentRaw>>

\* c.httpClient.Do(httpReq) starts: a context that is already done makes Do
\* fail without a request; otherwise the request goes out
CallSend(p) ==
    /\ call[p].pc = "send"
    /\ IF CtxObserved(ctxDone[p])
       THEN /\ call' = [call EXCEPT ![p] =
                            DoFailed([@ EXCEPT !.ctxAtDo = ctxDone[p]], "canceled", TRUE)]
            /\ UNCHANGED sentRaw
       ELSE /\ call' = [call EXCEPT ![p] = [@ EXCEPT !.pc = "await", !.sent = @ + 1,
                                                      !.ctxAtDo = ctxDone[p]]]
            /\ sentRaw' = IF call[p].method = "eth_sendRawTransaction"
                          THEN Append(sentRaw, op[p].signed) ELSE sentRaw
    /\ UNCHANGED <<pureVars, idCounter, op, ctxDone, mined, started>>

\* Do and io.ReadAll end and Call returns: the transport fails, or it
\* observes the cancelled context, or the body is read and decoded (a
\* response that is already there can win the race against a cancellation)
CallRecv(p) ==
    /\ call[p].pc = "await"
    /\ \/ \E kind \in {"http", "read"} :
             call' = [call EXCEPT ![p] = DoFailed(call[p], kind, FALSE)]
       \/ /\ ctxDone[p]
          /\ call' = [call EXCEPT ![p] = DoFailed(call[p], "canceled", TRUE)]
       \/ \E body \in Bodies(call[p].method, call[p].id) :
             LET d == CallDecode(body) IN
             call' = [call EXCEPT ![p] =
                         Returned([@ EXCEPT !.read = TRUE, !.body = body],
                                  d.result, d.err, FALSE)]
    /\ UNCHANGED <<pureVars, idCounter, op, ctxDone, mined, started, sentRaw>>

\* the direct caller of Call receives (result, err)
CallReturn(p) ==
    /\ call[p].pc = "ret"
    /\ op[p].pc = "call"
    /\ op' = [op EXCEPT ![p] =
                 Finish(@, IF call[p].err.kind = "nil" THEN "ok" ELSE "err",
                        call[p].result, call[p].err)]
    /\ call' = [call EXCEPT ![p] = [@ EXCEPT !.pc = "none"]]
    /\ UNCHANGED <<pureVars, idCounter, ctxDone, mined, started, sentRaw>>

(* ---------------------------------------------------------------------- *)
(* Wallet                                                                 *)
(* ---------------------------------------------------------------------- *)

SelectDoneMutAlwaysDefault(done) == FALSE

\* select { case <-ctx.Done(): ... default: ... }: the Done case is taken
\* exactly when the context is done
SelectDone(done) == done

\* WaitForTransaction at the head of its loop: return ctx.Err() when the
\* context is done, otherwise start a poll
WaitSelect(p) ==
    /\ op[p].pc = "select"
    /\ IF SelectDone(ctxDone[p])
       THEN op' = [op EXCEPT ![p] = Finish(@, "err", RawNil, MkErr("canceled"))]
       ELSE /\ op[p].polls < MaxPolls
            /\ op' = [op EXCEPT ![p] = [@ EXCEPT !.pc = "poll", !.polls = @ + 1]]
    /\ UNCHANGED <<pureVars, idCounter, call, ctxDone, mined, started, sentRaw>>

\* WaitForTransaction after GetTransactionReceipt returned: a nil error
\* returns the receipt, any error goes round the loop
WaitReceipt(p) ==
    /\ call[p].pc = "ret"
    /\ op[p].pc = "poll"
    /\ LET r == GetTransactionReceipt(call[p]) IN
       op' = [op EXCEPT ![p] =
                 IF r.st = "ok" THEN Finish(@, "ok", RawObject(r.status), NoErr)
                 ELSE [@ EXCEPT !.pc = "select"]]
    /\ call' = [call EXCEPT ![p] = [@ EXCEPT !.pc = "none"]]
    /\ UNCHANGED <<pureVars, idCounter, ctxDone, mined, started, sentRaw>>

\* SendTransaction after EstimateGas returned (opts.GasLimit was 0)
SendEstimated(p) ==
    /\ call[p].pc = "ret"
    /\ op[p].pc = "estimate"
    /\ \E r \in {EstimateGas(call[p])} :
       op' = [op EXCEPT ![p] =
                 CASE r.st = "panic" -> Finish(@, "panic", RawNil, NoErr)
                   [] r.st = "err" ->
                        Finish(@, "err", RawNil, Wrap("failed to estimate gas", r.err))
                   [] r.st = "ok" ->
                        [@ EXCEPT !.gasLimit = BufferedGas(r.v, 10),
                                  !.pc = IF op[p].gasPriceNil THEN "gasPrice" ELSE "nonce"]]
    /\ call' = [call EXCEPT ![p] = [@ EXCEPT !.pc = "none"]]
    /\ UNCHANGED <<pureVars, idCounter, ctxDone, mined, started, sentRaw>>

\* SendTransaction after GetGasPrice returned (opts.GasPrice was nil)
SendPriced(p) ==
    /\ call[p].pc = "ret"
    /\ op[p].pc = "gasPrice"
    /\ \E r \in {GetGasPrice(call[p])} :
       op' = [op EXCEPT ![p] =
                 CASE r.st = "panic" -> Finish(@, "panic", RawNil, NoErr)
                   [] r.st = "err" ->
                        Finish(@, "err", RawNil, Wrap("failed to get gas price", r.err))
                   [] r.st = "ok" ->
                        [@ EXCEPT !.gasPriceNil = FALSE, !.gasPrice = r.v, !.pc = "nonce"]]
    /\ call' = [call EXCEPT ![p] = [@ EXCEPT !.pc = "none"]]
    /\ UNCHANGED <<pureVars, idCounter, ctxDone, mined, started, sentRaw>>

\* the TransactionParams SendTransaction builds from opts and the nonce
SendTxParams(f, nonce) ==
    [NewTransactionParams EXCEPT !.To = f.to, !.Value = f.value, !.Gas = f.gasLimit,
                                 !.GasPriceNil = f.gasPriceNil, !.GasPrice = f.gasPrice,
                                 !.Data = f.data, !.Nonce = nonce,
                                 !.ChainID = ChainMainnet]

\* SendTransaction after GetNonce returned: build the parameters and sign
SendNonced(p) ==
    /\ call[p].pc = "ret"
    /\ op[p].pc = "nonce"
    /\ \E r \in {GetTransactionCount(call[p])} :
       LET sig == SignTransaction(SendTxParams(op[p], r.v)) IN
       op' = [op EXCEPT ![p] =
                 CASE r.st = "panic" -> Finish(@, "panic", RawNil, NoErr)
                   [] r.st = "err" ->
                        Finish(@, "err", RawNil, Wrap("failed to get nonce", r.err))
                   [] r.st = "ok" /\ sig.err.kind # "nil" ->
                        Finish([@ EXCEPT !.nonce = r.v], "err", RawNil,
                               Wrap("failed to sign transaction", sig.err))
                   [] r.st = "ok" /\ sig.err.kind = "nil" ->
                        [@ EXCEPT !.nonce = r.v, !.signed = sig.signed, !.pc = "sendRaw"]]
    /\ call' = [call EXCEPT ![p] = [@ EXCEPT !.pc = "none"]]
    /\ UNCHANGED <<pureVars, idCounter, ctxDone, mined, started, sentRaw>>

\* SendTransaction after SendRawTransaction returned
SendSubmitted(p) ==
    /\ call[p].pc = "ret"
    /\ op[p].pc = "sendRaw"
    /\ LET r == SendRawTransaction(call[p]) IN
       op' = [op EXCEPT ![p] =
                 IF r.st = "err"
                 THEN Finish(@, "err", RawNil, Wrap("failed to send transaction", r.err))
                 ELSE Finish(@, "ok", RawString(r.s), NoErr)]
    /\ call' = [call EXCEPT ![p] = [@ EXCEPT !.pc = "none"]]
    /\ UNCHANGED <<pureVars, idCounter, ctxDone, mined, started, sentRaw>>

\* DeployContract after EstimateGas returned (gasLimit was 0)
DeployEstimated(p) ==
    /\ call[p].pc = "ret"
    /\ op[p].pc = "dEstimate"
    /\ \E r \in {EstimateGas(call[p])} :
       op' = [op EXCEPT ![p] =
                 CASE r.st = "panic" -> Finish(@, "panic", RawNil, NoErr)
                   [] r.st = "err" ->
                        Finish(@, "err", RawNil, Wrap("failed to estimate gas", r.err))
                   [] r.st = "ok" ->
                        LET g == [@ EXCEPT !.gasLimit = BufferedGas(r.v, 20)] IN
                        IF g.gasPriceNil THEN [g EXCEPT !.pc = "dGasPrice"]
                        ELSE EnterSendTransaction([g EXCEPT !.to = "", !.value = 0])]
    /\ call' = [call EXCEPT ![p] = [@ EXCEPT !.pc = "none"]]
    /\ UNCHANGED <<pureVars, idCounter, ctxDone, mined, started, sentRaw>>

\* DeployContract after GetGasPrice returned (gasPrice was nil): the tail
\* call of SendTransaction with To: ""
DeployPriced(p) ==
    /\ call[p].pc = "ret"
    /\ op[p].pc = "dGasPrice"
    /\ \E r \in {GetGasPrice(call[p])} :
       op' = [op EXCEPT ![p] =
                 CASE r.st = "panic" -> Finish(@, "panic", RawNil, NoErr)
                   [] r.st = "err" ->
                        Finish(@, "err", RawNil, Wrap("failed to get gas price", r.err))
                   [] r.st = "ok" ->
                        EnterSendTransaction([@ EXCEPT !.gasPriceNil = FALSE,
                                                       !.gasPrice = r.v,
                                                       !.to = "", !.value = 0])]
    /\ call' = [call EXCEPT ![p] = [@ EXCEPT !.pc = "none"]]
    /\ UNCHANGED <<pureVars, idCounter, ctxDone, mined, started, sentRaw>>

(* ---------------------------------------------------------------------- *)
(* Specification                                                          *)
(* ---------------------------------------------------------------------- *)

\* goroutines that share one Client and call Client.Call concurrently
Next ==
    \E p \in Procs :
       \/ Cancel(p)
       \/ StartCall(p)
       \/ CallBegin(p)
       \/ CallSend(p)
       \/ CallRecv(p)
       \/ CallReturn(p)

Spec == Init /\ [][Next]_vars

\* the goroutine that runs the wallet flows
W == CHOOSE p \in Procs : \A q \in Procs : p <= q

\* the steps of the wallet goroutine
WalletStep ==
    \/ CallBegin(W)
    \/ CallSend(W)
    \/ CallRecv(W)
    \/ WaitSelect(W)
    \/ WaitReceipt(W)
    \/ SendEstimated(W)
    \/ SendPriced(W)
    \/ SendNonced(W)
    \/ SendSubmitted(W)
    \/ DeployEstimated(W)
    \/ DeployPriced(W)

\* one goroutine running a wallet flow against the node
WalletNext ==
    \/ Mine
    \/ Cancel(W)
    \/ StartWaitForTransaction(W)
    \/ StartSendTransaction(W)
    \/ StartDeployContract(W)
    \/ WalletStep

SpecWallet == Init /\ [][WalletNext]_vars

\* the goroutine is scheduled, and an HTTP round trip ends (with a response
\* or a failure)
SpecWalletLive == SpecWallet /\ WF_vars(WalletStep)

\* goroutine p of a batch calls wallet.SendTransaction(ctx, opts) with its own
\* opts, which carry the gas limit and the gas price
StartBatchSend(p) ==
    /\ op[p].pc = "idle"
    /\ op' = [op EXCEPT ![p] =
                 EnterSendTransaction([IdleOp EXCEPT !.entry = "SendTransaction",
                                                     !.to = Recipient, !.value = 1,
                                                     !.gasLimit = 21000,
                                                     !.gasPriceNil = FALSE, !.gasPrice = 2])]
    /\ UNCHANGED <<pureVars, idCounter, call, ctxDone, mined, started, sentRaw>>

\* the goroutines of a batch send from the same wallet concurrently
SpecBatch ==
    Init /\ [][\E p \in Procs : \/ StartBatchSend(p)
                               \/ CallBegin(p)
                               \/ CallSend(p)
                               \/ CallRecv(p)
                               \/ SendNonced(p)
                               \/ SendSubmitted(p)]_vars

\* the caller calls wallet.SendTransaction(ctx, opts) a second time with the
\* opts object of a SendTransaction that returned
SendAgain(p) ==
    /\ op[p].pc = "done"
    /\ op[p].entry = "SendTransaction"
    /\ op[p].st \in {"ok", "err"}
    /\ op[p].prev.st = "none"
    /\ op' = [op EXCEPT ![p] =
                 EnterSendTransaction([@ EXCEPT !.prev = [st |-> op[p].st, err |-> op[p].err],
                                                !.st = "none", !.val = RawNil, !.err = NoErr,
                                                !.nonce = 0, !.signed = NoSigned])]
    /\ UNCHANGED <<pureVars, idCounter, call, ctxDone, mined, started, sentRaw>>

\* one goroutine that calls SendTransaction, and once more with the same opts
SpecResend ==
    Init /\ [][\/ StartSendTransaction(W)
               \/ SendAgain(W)
               \/ CallBegin(W)
               \/ CallSend(W)
               \/ CallRecv(W)
               \/ SendEstimated(W)
               \/ SendPriced(W)
               \/ SendNonced(W)
               \/ SendSubmitted(W)]_vars

(* ---------------------------------------------------------------------- *)
(* Builder and signer operations                                          *)
(* ---------------------------------------------------------------------- *)

Addresses == {"", Recipient}

GasValues == {0, 21000}

\* txParams.SetTo(address)
SetTo ==
    /\ \E a \in Addresses : txParams' = [txParams EXCEPT !.To = a]
    /\ UNCHANGED <<netVars, eip1559Params, signOut, conv>>

\* tp.SetGas(gas)
SetGas ==
    /\ \E g \in GasValues : txParams' = [txParams EXCEPT !.Gas = g]
    /\ UNCHANGED <<netVars, eip1559Params, signOut, conv>>

\* tp.SetGasPrice(gasPrice), with nil or a price
SetGasPrice ==
    /\ \E isNil \in BOOLEAN :
          txParams' = [txParams EXCEPT !.GasPriceNil = isNil, !.GasPrice = IF isNil THEN 0 ELSE 2]
    /\ UNCHANGED <<netVars, eip1559Params, signOut, conv>>

\* tp.SetGasPriceInGwei(gwei): gasPrice, _ := ToWei(gwei, Gwei), then
\* tp.GasPrice = gasPrice; conv keeps the conversion the setter made
SetGasPriceInGwei ==
    /\ \E gwei \in {<<"2">>, <<"1">>, <<"a", "b", "c">>, <<>>} :
          LET Store(out) ==
                  /\ conv' = [ConvArgs("ToWei", gwei, NilAmount, "gwei")
                                 EXCEPT !.pc = "returned", !.out = Returns(out)]
                  /\ txParams' = [txParams EXCEPT
                                     !.GasPriceNil = out.wei.isNil,
                                     !.GasPrice = IF out.wei.isNil THEN 0 ELSE IntOf(out.wei)]
          IN  Store(ToWei(gwei, "gwei"))
    /\ UNCHANGED <<netVars, eip1559Params, signOut>>

\* tp.SetDataFromHex(hexData): the prefix 0x is cut, data, _ :=
\* hex.DecodeString(hexData), then tp.Data = data.  DecodeString decodes the
\* pairs of digits up to the first character that is no hex digit and
\* returns those bytes with the error; a text of odd length decodes its
\* whole pairs and fails too.  conv keeps the decoding the setter made
SetDataFromHex ==
    /\ \E hexData \in {<<"0", "x", "6", "0", "8", "0">>, <<"0", "x", "1", "2", "z", "z">>,
                        <<"0", "x", "1", "2", "3">>} :
          LET src == IF Len(hexData) >= 2 /\ hexData[1] = "0" /\ hexData[2] = "x"
                     THEN SubSeq(hexData, 3, Len(hexData)) ELSE hexData
              valid(i) == ScanDigitValue(src[i]) < 16
              bad == {i \in 1..Len(src) : ~valid(i)}
              n == IF \E i \in bad : i <= 2 * (Len(src) \div 2)
                   THEN ((CHOOSE i \in bad : \A j \in bad : i <= j) - 1) \div 2
                   ELSE Len(src) \div 2
              err == IF bad # {} THEN "encoding/hex: invalid byte"
                     ELSE IF Len(src) % 2 = 1 THEN "encoding/hex: odd length hex string"
                     ELSE ""
              data == [j \in 1..n |-> HexChar(ScanDigitValue(src[2 * j - 1]))
                                        \o HexChar(ScanDigitValue(src[2 * j]))]
          IN  /\ conv' = [ConvArgs("hex.DecodeString", hexData, NilAmount, "")
                             EXCEPT !.pc = "returned", !.out = ConvOut(NilAmount, <<>>, err)]
              /\ txParams' = [txParams EXCEPT !.Data = data]
    /\ UNCHANGED <<netVars, eip1559Params, signOut>>

\* the caller fills the fields of an EIP1559TransactionParams
AssignEIP1559 ==
    /\ \/ \E a \in Addresses : eip1559Params' = [eip1559Params EXCEPT !.To = a]
       \/ \E g \in GasValues : eip1559Params' = [eip1559Params EXCEPT !.Gas = g]
       \/ \E isNil \in BOOLEAN :
             eip1559Params' = [eip1559Params EXCEPT !.MaxFeePerGasNil = isNil,
                                      !.MaxFeePerGas = IF isNil THEN 0 ELSE 3]
       \/ \E isNil \in BOOLEAN :
             eip1559Params' = [eip1559Params EXCEPT !.MaxPriorityFeePerGasNil = isNil,
                                      !.MaxPriorityFeePerGas = IF isNil THEN 0 ELSE 1]
    /\ UNCHANGED <<netVars, txParams, signOut, conv>>

\* SignTransaction(tx, privateKey)
DoSignTransaction ==
    /\ signOut' = LegacySignRecord("SignTransaction", txParams, SignTransaction(txParams))
    /\ UNCHANGED <<netVars, txParams, eip1559Params, conv>>

\* SignEIP1559Transaction(txParams, privateKey)
DoSignEIP1559Transaction ==
    /\ signOut' = EIP1559SignRecord("SignEIP1559Transaction", eip1559Params,
                                    SignEIP1559Transaction(eip1559Params))
    /\ UNCHANGED <<netVars, txParams, eip1559Params, conv>>

\* CreateContractDeployment(bytecode, constructorData, privateKey, params):
\* params is written, then signed
DoCreateContractDeployment ==
    /\ \E constructorNil \in BOOLEAN :
          /\ txParams' = DeploymentParams(Bytecode, constructorNil, ConstructorArgs, txParams)
          /\ signOut' = LegacySignRecord("CreateContractDeployment", txParams,
                                         CreateContractDeployment(Bytecode, constructorNil,
                                                                  ConstructorArgs, txParams))
    /\ UNCHANGED <<netVars, eip1559Params, conv>>

BuilderNext ==
    \/ SetTo
    \/ SetGas
    \/ SetGasPrice
    \/ AssignEIP1559
    \/ DoSignTransaction
    \/ DoSignEIP1559Transaction
    \/ DoCreateContractDeployment

SpecBuilder == Init /\ [][BuilderNext]_vars

\* a caller that fills a TransactionParams with the setters
SpecSetters ==
    Init /\ [][SetTo \/ SetGas \/ SetGasPrice \/ SetGasPriceInGwei \/ SetDataFromHex]_vars

(* ---------------------------------------------------------------------- *)
(* Unit conversion calls                                                  *)
(* ---------------------------------------------------------------------- *)

\* the unit names of the EtherUnit constants
RecognisedUnits ==
    {"wei", "kwei", "babbage", "femtoether", "mwei", "lovelace", "picoether",
     "gwei", "shannon", "nanoether", "nano", "szabo", "microether", "micro",
     "finney", "milliether", "milli", "ether", "eth", "kether", "grand",
     "mether", "gether", "tether"}

\* the units a caller passes: an EtherUnit is a string, so any string can
\* be passed
UnitNames == RecognisedUnits \cup {"parsec", "ETHER", "Ether", ""}

\* the values a caller passes to ToWei
ValueTexts ==
    {<<"1">>,
     <<"0">>,
     <<"2">>,
     <<"1", ".", "5">>,
     <<"0", ".", "1">>,
     <<"0", ".", "0", "5">>,
     <<"-", "1">>,
     <<"1", ".", "1">>,
     <<".", "5">>,
     <<"1", ".">>,
     <<"0", ".", "0", "0", "0", "0", "0", "0", "0", "0", "0", "0", "0", "0", "0", "0", "0", "0", "0", "1">>,
     <<"1", "2", "3", "4", "5", "6", "7", "8", "9", ".", "1", "2", "3", "4", "5", "6", "7", "8", "9">>,
     <<>>,
     <<"a", "b", "c">>,
     <<"1", "e", "1", "8">>,
     <<"0", "x", "1", "0">>,
     <<"0", "b", "1", "1">>,
     <<"I", "n", "f">>,
     <<"1", "_", "0", "0", "0">>,
     <<"1", ".", "2", ".", "3">>}

\* the amounts a caller passes to FromWei: nil, some amounts, and one of
\* every unit
Amounts ==
    {NilAmount}
    \cup {Amount(t) : t \in {<<"0">>,
                         <<"1">>,
                         <<"-", "5">>,
                         <<"1", "5", "0", "0", "0", "0", "0", "0", "0", "0", "0", "0", "0", "0", "0", "0", "0", "0", "0">>,
                         <<"1", "2", "3", "4", "5", "6", "7", "8", "9", "0", "1", "2", "3", "4", "5", "6", "7", "8", "9">>,
                         <<"1", "2", "3", "4", "5", "6", "7", "8", "9", "0", "1", "2">>,
                         <<"2", "0", "0", "0", "0", "0", "0", "0", "0", "0", "0">>}}
    \cup {Amount(<<"1">> \o ZeroText(ToWeiExponent(u))) : u \in RecognisedUnits}

\* the calls of the conversions
ConvInputs ==
    {ConvArgs("ToWei", v, NilAmount, u) : v \in ValueTexts, u \in UnitNames}
    \cup {ConvArgs("FromWei", <<>>, a, u) : a \in Amounts, u \in UnitNames}

\* a program that is about to call a conversion
InitUnits ==
    /\ InitProgram
    /\ conv \in ConvInputs

\* ToWei(value, unit)
DoToWei ==
    /\ conv.fn = "ToWei"
    /\ conv.pc = "args"
    /\ conv' = [conv EXCEPT !.pc = "returned", !.out = Returns(ToWei(conv.value, conv.unit))]
    /\ UNCHANGED <<netVars, txParams, eip1559Params, signOut>>

\* FromWei(wei, unit)
DoFromWei ==
    /\ conv.fn = "FromWei"
    /\ conv.pc = "args"
    /\ conv' = [conv EXCEPT !.pc = "returned",
                            !.out = Returns(FromWei(BigIntOf(conv.amount), conv.unit))]
    /\ UNCHANGED <<netVars, txParams, eip1559Params, signOut>>

\* the caller passes what ToWei returned on to FromWei, for the same unit,
\* without looking at the error: weiValue, _ := ToWei(v, u); FromWei(weiValue, u).
\* The frame keeps the value ToWei was called with; a converted amount is
\* converted back once
ThenFromWei ==
    /\ conv.fn = "ToWei"
    /\ conv.pc = "returned"
    /\ conv.amount.isNil
    /\ conv' = ConvArgs("FromWei", conv.value, conv.out.wei, conv.unit)
    /\ UNCHANGED <<netVars, txParams, eip1559Params, signOut>>

\* the caller passes the text FromWei returned on to ToWei, for the same
\* unit.  The frame keeps the amount FromWei was called with
ThenToWei ==
    /\ conv.fn = "FromWei"
    /\ conv.pc = "returned"
    /\ conv.value = <<>>
    /\ conv' = ConvArgs("ToWei", conv.out.text, conv.amount, conv.unit)
    /\ UNCHANGED <<netVars, txParams, eip1559Params, signOut>>

UnitsNext ==
    \/ DoToWei
    \/ DoFromWei
    \/ ThenFromWei
    \/ ThenToWei

SpecUnits == InitUnits /\ [][UnitsNext]_vars

(* ---------------------------------------------------------------------- *)
(* Hex and address utilities                                              *)
(* ---------------------------------------------------------------------- *)

RECURSIVE Utf8(_)
\* []byte(s): the UTF-8 bytes of a text.  A printable ASCII character is the
\* one byte of its code (32 to 95 and, the backquote left out, 97 to 126);
\* the one other character of the texts here is U+00E9, two bytes
Utf8(s) ==
    LET ascii == <<" ", "!", "\"", "#", "$", "%", "&", "'", "(", ")", "*", "+", ",", "-",
                   ".", "/", "0", "1", "2", "3", "4", "5", "6", "7", "8", "9", ":", ";",
                   "<", "=", ">", "?", "@", "A", "B", "C", "D", "E", "F", "G", "H", "I",
                   "J", "K", "L", "M", "N", "O", "P", "Q", "R", "S", "T", "U", "V", "W",
                   "X", "Y", "Z", "[", "\\", "]", "^", "_", "a", "b", "c", "d", "e",
                   "f", "g", "h", "i", "j", "k", "l", "m", "n", "o", "p", "q", "r", "s",
                   "t", "u", "v", "w", "x", "y", "z", "{", "|", "}", "~">>
        Bytes(at) == IF at = 0 THEN <<195, 169>> ELSE IF at <= 64 THEN <<at + 31>> ELSE <<at + 32>>
    IN  IF s = <<>> THEN <<>> ELSE Bytes(IndexOf(ascii, Head(s))) \o Utf8(Tail(s))

\* IsAddress without the test of the length
IsAddressMutNoLength(address) ==
    IF ~(Len(address) >= 2 /\ address[1] = "0" /\ address[2] = "x") THEN FALSE
    ELSE \A i \in 3..Len(address) : address[i] \in HexDigits

\* IsAddress(address)
IsAddress(address) ==
    IF ~(Len(address) >= 2 /\ address[1] = "0" /\ address[2] = "x") THEN FALSE
    ELSE IF Len(Utf8(address)) # 42 THEN FALSE
    ELSE \A i \in 3..Len(address) : address[i] \in HexDigits

\* ToHex(value), value interface{}: value.kind is the dynamic type, and
\* value.int, value.bytes, value.text what it holds: the integer, the bytes,
\* the string or, for a type outside the switch, what %v prints
ToHex(value) ==
    LET \* %x of an integer: a minus sign for a negative one, then the minimal
        \* lower-case digits; big.Int's Format prints a nil pointer as <nil>
        HexOfInt(x) ==
            LET n == Max(1, (NatBitLen(x.abs) + 3) \div 4)
                Nibble(i) == NatBit(x.abs, 4 * i) + 2 * NatBit(x.abs, 4 * i + 1)
                             + 4 * NatBit(x.abs, 4 * i + 2) + 8 * NatBit(x.abs, 4 * i + 3)
            IN  IF x.isNil THEN <<"<", "n", "i", "l", ">">>
                ELSE (IF x.neg THEN <<"-">> ELSE <<>>) \o [i \in 1..n |-> HexChar(Nibble(n - i))]
        \* %x of a byte slice or of a string: two digits a byte
        HexOfBytes(bs) ==
            [i \in 1..(2 * Len(bs)) |->
                HexChar(IF i % 2 = 1 THEN bs[(i + 1) \div 2] \div 16 ELSE bs[i \div 2] % 16)]
        \* strconv.ParseInt(v, 10, 64) reads what SetString reads in base 10,
        \* and fails outside -2^63 .. 2^63 - 1
        ParseInt(r) ==
            [val |-> r.z,
             ok |-> /\ r.ok
                    /\ \/ NatBitLen(r.z.abs) <= 63
                       \/ r.z.neg /\ NatBitLen(r.z.abs) = 64 /\ NatSticky(r.z.abs, 63) = 0]
        String(v, parsed) ==
            IF Len(v) >= 2 /\ v[1] = "0" /\ v[2] = "x" THEN v
            ELSE IF parsed.ok THEN <<"0", "x">> \o HexOfInt(parsed.val)
            ELSE <<"0", "x">> \o HexOfBytes(Utf8(v))
    IN  CASE value.kind \in {"int", "int64", "uint64", "*big.Int"} ->
                <<"0", "x">> \o HexOfInt(value.int)
          [] value.kind = "[]byte" -> <<"0", "x">> \o HexOfBytes(value.bytes)
          [] value.kind = "string" -> String(value.text, ParseInt(IntSetString(value.text, 10)))
          [] OTHER -> <<"0", "x">> \o HexOfBytes(Utf8(value.text))

\* FromHex with the digits read in base 10
FromHexMutBase10(hex) ==
    IF ~(Len(hex) >= 2 /\ hex[1] = "0" /\ hex[2] = "x")
    THEN ConvOut(NilInt, <<>>, "hex string must start with 0x")
    ELSE ConvOut(IntSetString(SubSeq(hex, 3, Len(hex)), 10).z, <<>>, "")

\* FromHex(hex): (*big.Int, error)
FromHex(hex) ==
    IF ~(Len(hex) >= 2 /\ hex[1] = "0" /\ hex[2] = "x")
    THEN ConvOut(NilInt, <<>>, "hex string must start with 0x")
    ELSE ConvOut(IntSetString(SubSeq(hex, 3, Len(hex)), 16).z, <<>>, "")

(* ---------------------------------------------------------------------- *)
(* Calls of the hex and address utilities                                 *)
(* ---------------------------------------------------------------------- *)

\* the arguments of a utility call that is about to run
UtilArgs(fn, kind, amount, value, bytes) ==
    [fn |-> fn, pc |-> "args", kind |-> kind, amount |-> amount, value |-> value,
     bytes |-> bytes, out |-> NoReturn]

\* a program that is about to call ToHex, FromHex or IsAddress
InitUtils ==
    LET ints == {<<"0">>,
             <<"1">>,
             <<"1", "5">>,
             <<"1", "6">>,
             <<"2", "5", "5">>,
             <<"1", "2", "3", "4", "5">>,
             <<"1", "0", "0", "0", "0", "0", "0">>,
             <<"9", "2", "2", "3", "3", "7", "2", "0", "3", "6", "8", "5", "4", "7", "7", "5", "8", "0", "7">>}
        negative == {<<"-", "5">>,
             <<"-", "9", "2", "2", "3", "3", "7", "2", "0", "3", "6", "8", "5", "4", "7", "7", "5", "8", "0", "8">>}
        maxUint64 == {<<"1", "8", "4", "4", "6", "7", "4", "4", "0", "7", "3", "7", "0", "9", "5", "5", "1", "6", "1", "5">>}
        large == {<<"1", "8", "4", "4", "6", "7", "4", "4", "0", "7", "3", "7", "0", "9", "5", "5", "1", "6", "1", "6">>,
             <<"1", "0", "0", "0", "0", "0", "0", "0", "0", "0", "0", "0", "0", "0", "0", "0", "0", "0", "0", "0", "0", "0", "0", "0", "0", "0", "0", "0", "0", "0", "0">>}
        strings == {<<"0", "x", "1", "2", "3", "4">>,
             <<"1", "2", "3", "4", "5">>,
             <<"h", "e", "l", "l", "o">>,
             <<"-", "5">>,
             <<>>,
             <<"0", "X", "1", "0">>,
             <<"1", "8", "4", "4", "6", "7", "4", "4", "0", "7", "3", "7", "0", "9", "5", "5", "1", "6", "1", "6">>,
             <<"é">>,
             <<"+", "7">>,
             <<"1", "_", "0", "0", "0">>,
             <<"0">>}
        byteSlices == {<<>>,
             <<0>>,
             <<1, 255>>,
             <<222, 173, 190, 239>>}
        hexes == {<<"0", "x", "3", "0", "3", "9">>,
             <<"0", "x", "0">>,
             <<"0", "x">>,
             <<"0", "x", "z", "z">>,
             <<"0", "x", "1", "g">>,
             <<"3", "0", "3", "9">>,
             <<>>,
             <<"0", "X", "1", "0">>,
             <<"0", "x", "F", "F">>,
             <<"0", "x", "-", "5">>,
             <<"0", "x", "+", "5">>,
             <<"0", "x", " ", "1">>,
             <<"0", "x", "_", "1">>,
             <<"0", "x", "0", "0", "f", "f">>,
             <<"0", "x", "g", "1">>,
             <<"x", "0">>,
             <<"0", "x", "0", "x", "1", "0">>}
        addresses == {<<"0", "x", "0", "1", "2", "3", "4", "5", "6", "7", "8", "9", "a", "b", "c", "d", "e", "f", "0", "1", "2", "3", "4", "5", "6", "7", "8", "9", "a", "b", "c", "d", "e", "f", "0", "1", "2", "3", "4", "5", "6", "7">>,
             <<"0", "x", "A", "b", "C", "d", "E", "f", "6", "7", "8", "9", "a", "b", "c", "d", "e", "f", "0", "1", "2", "3", "4", "5", "6", "7", "8", "9", "a", "b", "c", "d", "e", "f", "0", "1", "2", "3", "4", "5", "6", "7">>,
             <<"0", "x", "0", "1", "2", "3", "4", "5", "6", "7", "8", "9", "a", "b", "c", "d", "e", "f", "0", "1", "2", "3", "4", "5", "6", "7", "8", "9", "a", "b", "c", "d", "e", "f", "0", "1", "2", "3", "4", "5", "6">>,
             <<"0", "x", "0", "1", "2", "3", "4", "5", "6", "7", "8", "9", "a", "b", "c", "d", "e", "f", "0", "1", "2", "3", "4", "5", "6", "7", "8", "9", "a", "b", "c", "d", "e", "f", "0", "1", "2", "3", "4", "5", "6", "7", "0">>,
             <<"0", "1", "2", "3", "4", "5", "6", "7", "8", "9", "a", "b", "c", "d", "e", "f", "0", "1", "2", "3", "4", "5", "6", "7", "8", "9", "a", "b", "c", "d", "e", "f", "0", "1", "2", "3", "4", "5", "6", "7", "8", "9">>,
             <<"0", "X", "0", "1", "2", "3", "4", "5", "6", "7", "8", "9", "a", "b", "c", "d", "e", "f", "0", "1", "2", "3", "4", "5", "6", "7", "8", "9", "a", "b", "c", "d", "e", "f", "0", "1", "2", "3", "4", "5", "6", "7">>,
             <<"0", "x", "0", "1", "2", "3", "4", "5", "6", "7", "8", "9", "a", "b", "c", "d", "e", "f", "0", "1", "2", "3", "g", "5", "6", "7", "8", "9", "a", "b", "c", "d", "e", "f", "0", "1", "2", "3", "4", "5", "6", "7">>,
             <<"0", "x", "0", "1", "2", "3", "4", "5", "6", "7", "8", "9", "a", "b", "c", "d", "e", "f", "0", "1", "2", "3", "4", "5", "6", "7", "8", "9", "a", "b", "c", "d", "e", "f", "0", "1", "2", "3", "4", "5", "6", "é">>,
             <<"0", "x", "0", "1", "2", "3", "4", "5", "6", "7", "8", "9", "a", "b", "c", "d", "e", "f", "0", "1", "2", "3", "4", "5", "6", "7", "8", "9", "a", "b", "c", "d", "e", "f", "0", "1", "2", "3", "4", "5", "é">>,
             <<>>,
             <<"0", "x">>,
             <<" ", "0", "x", "0", "1", "2", "3", "4", "5", "6", "7", "8", "9", "a", "b", "c", "d", "e", "f", "0", "1", "2", "3", "4", "5", "6", "7", "8", "9", "a", "b", "c", "d", "e", "f", "0", "1", "2", "3", "4", "5", "6">>,
             <<"0", "x", "0", "1", "2", "3", "4", "5", "6", "7", "8", "9", "a", "b", "c", "d", "e", "f", "0", "1", "2", "3", "4", "5", "6", "7", "8", "9", "a", "b", "c", "d", "e", "f", "0", "1", "2", "3", "4", "5", "6", " ">>,
             <<"0", "x", "0", "0", "0", "0", "0", "0", "0", "0", "0", "0", "0", "0", "0", "0", "0", "0", "0", "0", "0", "0", "0", "0", "0", "0", "0", "0", "0", "0", "0", "0", "0", "0", "0", "0", "0", "0", "0", "0", "0", "0">>,
             <<"0", "x", "0", "1", "2", "3", "4", "5", "6", "7", "8", "9", "a", "b", "c", "d", "e", "f", "0", "1", "2", "3", "x", "5", "6", "7", "8", "9", "a", "b", "c", "d", "e", "f", "0", "1", "2", "3", "4", "5", "6", "7">>}
        IntCalls(kind, set) == {UtilArgs("ToHex", kind, Amount(t), <<>>, <<>>) : t \in set}
    IN  /\ InitProgram
        /\ conv \in IntCalls("int", ints \cup negative) \cup IntCalls("int64", ints \cup negative)
                     \cup IntCalls("uint64", ints \cup maxUint64)
                     \cup IntCalls("*big.Int", ints \cup negative \cup maxUint64 \cup large)
                     \cup {UtilArgs("ToHex", "*big.Int", NilAmount, <<>>, <<>>)}
                     \cup {UtilArgs("ToHex", "string", NilAmount, t, <<>>) : t \in strings}
                     \cup {UtilArgs("ToHex", "[]byte", NilAmount, <<>>, b) : b \in byteSlices}
                     \cup {UtilArgs("ToHex", "bool", NilAmount, <<"t", "r", "u", "e">>, <<>>),
                           UtilArgs("ToHex", "float64", NilAmount, <<"1", ".", "5">>, <<>>)}
                     \cup {UtilArgs("FromHex", "string", NilAmount, t, <<>>) : t \in hexes}
                     \cup {UtilArgs("IsAddress", "string", NilAmount, t, <<>>) : t \in addresses}

\* ToHex(value)
DoToHex ==
    /\ conv.fn = "ToHex"
    /\ conv.pc = "args"
    /\ conv' = [conv EXCEPT !.pc = "returned",
                            !.out = ConvOut(NilAmount,
                                            ToHex([kind |-> conv.kind, int |-> BigIntOf(conv.amount),
                                                   text |-> conv.value, bytes |-> conv.bytes]),
                                            "")]
    /\ UNCHANGED <<netVars, txParams, eip1559Params, signOut>>

\* FromHex(hex)
DoFromHex ==
    /\ conv.fn = "FromHex"
    /\ conv.pc = "args"
    /\ conv' = [conv EXCEPT !.pc = "returned", !.out = Returns(FromHex(conv.value))]
    /\ UNCHANGED <<netVars, txParams, eip1559Params, signOut>>

\* FromHex(ToHex(n)): the text ToHex returned for an integer is decoded
ThenFromHex ==
    /\ conv.fn = "ToHex"
    /\ conv.pc = "returned"
    /\ conv.kind \in {"int", "int64", "uint64", "*big.Int"}
    /\ conv' = UtilArgs("FromHex", conv.kind, conv.amount, conv.out.text, <<>>)
    /\ UNCHANGED <<netVars, txParams, eip1559Params, signOut>>

\* IsAddress(address)
DoIsAddress ==
    /\ conv.fn = "IsAddress"
    /\ conv.pc = "args"
    /\ conv' = [conv EXCEPT !.pc = "returned", !.out = [ok |-> IsAddress(conv.value)]]
    /\ UNCHANGED <<netVars, txParams, eip1559Params, signOut>>

UtilsNext == \/ DoToHex \/ DoFromHex \/ ThenFromHex \/ DoIsAddress

SpecUtils == InitUtils /\ [][UtilsNext]_vars

(* ---------------------------------------------------------------------- *)
(* PadLeft and PadRight                                                   *)
(* ---------------------------------------------------------------------- *)

\* one pass of `for len(str) < length { str = padChar + str }` (PadRight:
\* str + padChar); len is the length in bytes.  iters counts the passes
PadLoop ==
    /\ conv.pc = "loop"
    /\ Len(Utf8(conv.str)) < conv.length
    /\ conv.iters < MaxPadIters
    /\ conv' = [conv EXCEPT !.str = IF conv.fn = "PadLeft" THEN conv.padChar \o @
                                    ELSE @ \o conv.padChar,
                            !.iters = @ + 1]
    /\ UNCHANGED <<netVars, txParams, eip1559Params, signOut>>

\* the loop condition is false: return str
PadReturn ==
    /\ conv.pc = "loop"
    /\ ~(Len(Utf8(conv.str)) < conv.length)
    /\ conv' = [conv EXCEPT !.pc = "returned"]
    /\ UNCHANGED <<netVars, txParams, eip1559Params, signOut>>

\* a program that calls PadLeft(str, length, padChar) or PadRight(str, length,
\* padChar); arg keeps the str it passed
InitPad ==
    /\ InitProgram
    /\ conv \in {[fn |-> f, pc |-> "loop", arg |-> a, length |-> n, padChar |-> c,
                   str |-> a, iters |-> 0] :
                      f \in {"PadLeft", "PadRight"},
                      a \in {<<>>, <<"a", "b", "c">>, <<"1", "a", "2", "b">>,
                             <<"a", "b", "c", "d", "e", "f", "g", "h", "i">>},
                      n \in {-1, 0, 4, 8},
                      c \in {<<"0">>, <<>>, <<"a", "b">>, <<"é">>}}

SpecPad == InitPad /\ [][PadLoop \/ PadReturn]_vars

(* ---------------------------------------------------------------------- *)
(* Properties of PadLeft and PadRight (checked under SpecPad)             *)
(* ---------------------------------------------------------------------- *)

\* C28: PadLeft and PadRight terminate for every input, the loop making at
\* most max(0, length - len(str)) passes; the str passed is a suffix
\* (PadLeft) or a prefix (PadRight) of the result, the result is str itself
\* when len(str) >= length, and with a padChar of one character the result
\* has length exactly max(len(str), length).
C28_PadTerminates ==
    LET given == Len(Utf8(conv.arg))
        k == Len(conv.arg)
        n == Len(conv.str)
    IN  /\ conv.iters <= Max(0, conv.length - given)
        /\ conv.pc = "returned"
              => /\ n >= k
                 /\ conv.fn = "PadLeft" => SubSeq(conv.str, n - k + 1, n) = conv.arg
                 /\ conv.fn = "PadRight" => SubSeq(conv.str, 1, k) = conv.arg
                 /\ given >= conv.length => conv.str = conv.arg
                 /\ Len(conv.padChar) = 1
                       => Len(Utf8(conv.str)) = Max(given, conv.length)

(* ---------------------------------------------------------------------- *)
(* Properties of Client.Call (checked under Spec)                         *)
(* ---------------------------------------------------------------------- *)

\* C1: the request ids of the Calls started on one Client, in whatever
\* order concurrent goroutines reach the counter, are pairwise distinct.
C1_DistinctRequestIds ==
    \A i, j \in 1..Len(started) : i # j => started[i].id # started[j].id

\* two Calls of different goroutines are in flight at the same time
C1_Witness ==
    \E p, q \in Procs : p # q /\ call[p].pc = "await" /\ call[q].pc = "await"

\* C2: the counter starts at 0 and every started Call adds exactly 1 to it,
\* whatever becomes of the Call: the counter equals the number of Calls
\* started and the k-th started Call carries id k.
C2_CounterCountsCalls ==
    /\ idCounter = Len(started)
    /\ \A k \in 1..Len(started) : started[k].id = k

\* every goroutine started a Call, one failed to marshal or was cancelled,
\* another returned a result
C2_Witness ==
    /\ Len(started) = NumProcs
    /\ \E p, q \in Procs :
          /\ call[p].pc = "ret" /\ call[p].err.kind \in {"marshal", "canceled"}
          /\ call[q].pc = "ret" /\ call[q].err.kind = "nil"

\* a response whose "error" member is an object of the wire format (code,
\* message, and data absent or a string)
HasErrorObject(c) ==
    /\ c.read
    /\ c.body.valid
    /\ c.body.errm = "object"
    /\ c.body.errobj.dtype \in {"absent", "string"}

C4_AtMostOneRequest ==
    \A p \in Procs : call[p].sent <= 1

\* Calls returned a transport failure, a decode failure and an RPC failure
\* after their single request
C4_Witness ==
    \E p \in Procs :
       /\ call[p].pc = "ret"
       /\ call[p].sent = 1
       /\ call[p].err.kind \in {"http", "read", "unmarshal", "rpc"}

\* C5: a Call whose context is done when the round trip starts, or whose
\* transport observes the cancellation while the request is out, returns a
\* cancellation error and a nil result.
C5_CancellationFails ==
    \A p \in Procs :
       (call[p].pc = "ret" /\ (call[p].ctxAtDo \/ call[p].obs))
       => /\ call[p].err.kind = "canceled"
          /\ call[p].result = RawNil

\* one Call was cancelled before its round trip, another while in flight
C5_Witness ==
    \E p, q \in Procs :
       /\ call[p].pc = "ret" /\ call[p].ctxAtDo /\ call[p].sent = 0
       /\ call[q].pc = "ret" /\ call[q].obs /\ call[q].sent = 1

\* C21: Client.Call checks the id of the response envelope against the id
\* of its request: a Call that read an envelope with another id fails, and
\* never returns that envelope's result.
C21_ResponseIdChecked ==
    \A p \in Procs :
       (/\ call[p].pc = "ret" /\ call[p].read /\ call[p].body.valid
        /\ call[p].body.id # call[p].id)
       => /\ call[p].err.kind # "nil"
          /\ call[p].result = RawNil

\* C22: a Call that returns does so with exactly one of a present result and
\* no error, or an error and no result; a body that is not JSON, or an
\* envelope with neither a result nor an error, is a decode error.
C22_ResultXorError ==
    \A p \in Procs :
       call[p].pc = "ret"
       => \/ call[p].err.kind = "nil" /\ call[p].result.t # "nil"
          \/ call[p].err.kind # "nil" /\ call[p].result = RawNil

(* ---------------------------------------------------------------------- *)
(* Properties of the wallet flows (checked under SpecWallet)              *)
(* ---------------------------------------------------------------------- *)

C7_ReceiptOnlyWhenMined ==
    (op[W].entry = "WaitForTransaction" /\ op[W].pc = "done" /\ op[W].st = "ok")
    => mined

\* the kinds of error a failed RPC gives
RPCFailureKinds == {"marshal", "http", "read", "canceled", "unmarshal", "rpc", "decode"}

\* C9: DeployContract, when none of its RPCs fails, signs the creation
\* transaction, submits it and returns its hash.
C9_DeployContractSubmits ==
    (/\ op[W].entry = "DeployContract"
     /\ op[W].pc = "done"
     /\ op[W].st # "panic"
     /\ op[W].err.kind \notin RPCFailureKinds)
    => /\ op[W].st = "ok"
       /\ \E i \in 1..Len(sentRaw) : sentRaw[i].to = ""

\* the methods whose result the typed method decodes as a hex integer
QuantityMethods == {"eth_estimateGas", "eth_gasPrice", "eth_getTransactionCount"}

\* a result member is a JSON string of 0x followed by hex digits only
IsHexQuantity(raw) ==
    /\ raw.t = "string"
    /\ Len(raw.s) >= 2 /\ raw.s[1] = "0" /\ raw.s[2] = "x"
    /\ \A i \in 3..Len(raw.s) : raw.s[i] \in HexDigits

\* C20: a typed method that expects a hex integer returns a decode error,
\* and neither crashes nor returns a number, when the Call succeeded with a
\* result that is not a 0x-prefixed hex string (a JSON null, a string of
\* one character, a string with a digit that is not hex): the operation that
\* called it ends with that decode error.
C20_QuantityDecodeError ==
    (/\ call[W].pc = "none"
     /\ call[W].method \in QuantityMethods
     /\ call[W].err.kind = "nil"
     /\ ~IsHexQuantity(call[W].result))
    => /\ op[W].pc = "done"
       /\ op[W].st = "err"
       /\ op[W].err.kind = "decode"

\* C24: numeric results are decoded without a fixed-width overflow: when
\* the node answers eth_estimateGas or eth_getTransactionCount with a hex
\* quantity of more than 16 digits (2^64 or more), which no uint64 holds,
\* the method fails, and the operation ends with that error instead of
\* going on with the value reduced modulo 2^64.
C24_NoFixedWidthOverflow ==
    (/\ call[W].pc = "none"
     /\ call[W].method \in {"eth_estimateGas", "eth_getTransactionCount"}
     /\ call[W].err.kind = "nil"
     /\ IsHexQuantity(call[W].result)
     /\ Len(call[W].result.s) > 18
     /\ call[W].result.s[3] # "0")
    => /\ op[W].pc = "done"
       /\ op[W].st = "err"

\* C25: the transactions that concurrent SendTransaction calls of one
\* wallet submit are signed with pairwise distinct nonces (checked under
\* SpecBatch).
C25_DistinctNonces ==
    \A i, j \in 1..Len(sentRaw) : i # j => sentRaw[i].nonce # sentRaw[j].nonce

\* the position of a step in SendTransaction
StepRank(pc) ==
    CASE pc = "estimate" -> 1
      [] pc = "gasPrice" -> 2
      [] pc = "nonce" -> 3
      [] pc = "sendRaw" -> 4
      [] pc = "done" -> 5
      [] OTHER -> 0

\* a Call of SendTransaction is in flight or has just returned
InSendCall(method) ==
    /\ op[W].name = "SendTransaction"
    /\ call[W].pc \in {"send", "await", "ret"}
    /\ call[W].method = method

\* what holds in every state of a SendTransaction
SendOrderState ==
    /\ InSendCall("eth_estimateGas") => op[W].pc = "estimate" /\ op[W].gasLimit = 0
    /\ InSendCall("eth_gasPrice") => op[W].pc = "gasPrice" /\ op[W].gasPriceNil
    /\ InSendCall("eth_getTransactionCount") => op[W].pc = "nonce" /\ op[W].signed.nil
    /\ InSendCall("eth_sendRawTransaction")
          => /\ op[W].pc = "sendRaw"
             /\ ~op[W].signed.nil
             /\ ~op[W].gasPriceNil
             /\ op[W].signed.nonce = op[W].nonce
             /\ op[W].signed.gas = op[W].gasLimit
    /\ Len(sentRaw) <= 1
    /\ sentRaw # <<>> => op[W].pc \in {"sendRaw", "done"} /\ sentRaw[1] = op[W].signed
    /\ (/\ op[W].name = "SendTransaction"
        /\ op[W].pc = "done"
        /\ \/ op[W].st = "panic"
           \/ op[W].st = "err" /\ Head(op[W].err.wrap) # "failed to send transaction")
          => sentRaw = <<>> /\ op[W].val = RawNil

\* C26: SendTransaction runs its steps in the order eth_estimateGas (only
\* when opts.GasLimit is 0), eth_gasPrice (only when opts.GasPrice is nil),
\* eth_getTransactionCount, signing, eth_sendRawTransaction; it sends at most
\* one raw transaction, only after every earlier step returned without an
\* error, and a failed earlier step ends it with an error, no result and
\* nothing sent.
C26_SendTransactionStepOrder ==
    [][/\ SendOrderState'
       /\ (op[W].name = "SendTransaction" /\ op'[W].pc # op[W].pc)
             => /\ op'[W].name = "SendTransaction"
                /\ StepRank(op[W].pc) < StepRank(op'[W].pc)
       /\ (/\ op[W].name = "SendTransaction"
           /\ op[W].pc \in {"estimate", "gasPrice", "nonce"}
           /\ call[W].pc = "ret"
           /\ call[W].err.kind # "nil"
           /\ op'[W] # op[W])
             => /\ op'[W].pc = "done"
                /\ op'[W].st = "err"
                /\ op'[W].val = RawNil
                /\ sentRaw' = <<>>
       /\ (op'[W].pc = "sendRaw" /\ op[W].pc # "sendRaw")
             => /\ op[W].pc = "nonce"
                /\ call[W].pc = "ret"
                /\ call[W].err.kind = "nil"
       /\ sentRaw' # sentRaw
             => /\ op[W].pc = "sendRaw"
                /\ call[W].method = "eth_sendRawTransaction"
                /\ sentRaw = <<>>]_vars

\* a SendTransaction that went through every step and returned the hash
C26_Witness ==
    /\ op[W].entry = "SendTransaction"
    /\ op[W].pc = "done"
    /\ op[W].st = "ok"
    /\ op[W].gasLimit = BufferedGas(21000, 10)
    /\ Len(sentRaw) = 1
    /\ sentRaw[1].gas = BufferedGas(21000, 10)
    /\ sentRaw[1].price = op[W].gasPrice

\* C27: when eth_getTransactionReceipt fails with an RPCError of the node
\* during WaitForTransaction, WaitForTransaction returns that error and
\* makes no further eth_getTransactionReceipt call.
C27_WaitPropagatesRPCError ==
    [][(/\ op[W].entry = "WaitForTransaction"
        /\ op[W].pc = "poll"
        /\ call[W].pc = "ret"
        /\ call[W].err.kind = "rpc"
        /\ op'[W] # op[W])
          => /\ op'[W].pc = "done"
             /\ op'[W].st = "err"
             /\ op'[W].err.kind = "rpc"]_vars

\* an earlier SendTransaction returned without one of the given failures
PassedSteps(prev, failures) ==
    \/ prev.st = "ok"
    \/ prev.st = "err" /\ Head(prev.err.wrap) \notin failures

\* what a step of SendTransaction does to opts, and what a second
\* SendTransaction with the same opts requests; zeroReestimated: a stored
\* gas limit of 0 may be estimated again
OptsWrites(zeroReestimated) ==
    LET f == op[W]
        g == op'[W]
        e == EstimateGas(call[W]).v
    IN  /\ f.pc # "idle"
              => /\ g.to = f.to /\ g.value = f.value /\ g.data = f.data
                 /\ g.gasLimit # f.gasLimit => f.pc = "estimate" /\ f.gasLimit = 0
                 /\ (g.gasPriceNil # f.gasPriceNil \/ g.gasPrice # f.gasPrice)
                       => f.pc = "gasPrice" /\ f.gasPriceNil
        /\ (f.pc = "estimate" /\ g.pc \notin {"estimate", "done"})
              => g.gasLimit = e + ((e * 10) \div 100)
        /\ (f.pc = "gasPrice" /\ g.pc \notin {"gasPrice", "done"})
              => ~g.gasPriceNil /\ g.gasPrice = GetGasPrice(call[W]).v
        /\ (/\ g.prev.st # "none"
            /\ call'[W].pc = "send"
            /\ call'[W].method = "eth_estimateGas"
            /\ PassedSteps(g.prev, {"failed to estimate gas"}))
              => zeroReestimated /\ g.gasLimit = 0
        /\ (/\ g.prev.st # "none"
            /\ call'[W].pc = "send"
            /\ PassedSteps(g.prev, {"failed to estimate gas", "failed to get gas price"}))
              => call'[W].method # "eth_gasPrice"

\* C30: SendTransaction writes into the caller's opts: with opts.GasLimit 0
\* it stores estimate + estimate*10/100 there, with opts.GasPrice nil the
\* fetched price; the writes stay when a later step fails, so a second
\* SendTransaction with the same opts requests neither eth_estimateGas nor
\* eth_gasPrice; To, Value and Data of opts are never written.
C30_OptsWritesPersist == [][OptsWrites(FALSE)]_vars

\* C30 as amended: the same, except that a second SendTransaction requests
\* eth_estimateGas again when the stored gas limit is 0 (the estimate was 0).
C30_OptsWritesPersistUnlessZero == [][OptsWrites(TRUE)]_vars

\* the first SendTransaction estimated the gas, fetched the price and failed
\* at a later step; the second one, with the same opts, starts at the nonce
C30_Witness ==
    /\ op[W].prev.st = "err"
    /\ Head(op[W].prev.err.wrap) \in {"failed to get nonce", "failed to send transaction"}
    /\ op[W].gasLimit = 23100
    /\ ~op[W].gasPriceNil
    /\ op[W].pc = "nonce"
    /\ call[W].pc = "send"
    /\ call[W].method = "eth_getTransactionCount"
    /\ Len(started) = 4

(* ---------------------------------------------------------------------- *)
(* Properties of the signer (checked under SpecBuilder) and of the        *)
(* setters (checked under SpecSetters)                                    *)
(* ---------------------------------------------------------------------- *)

\* the signing call failed in validation: no signer call, nil result
RejectedUnsigned ==
    /\ signOut.err.kind = "validation"
    /\ ~signOut.signer
    /\ signOut.signed.nil

\* C8: SignTransaction rejects an empty To, a zero Gas and a nil GasPrice,
\* SignEIP1559Transaction an empty To, a zero Gas and a nil MaxFeePerGas or
\* MaxPriorityFeePerGas, before the external signer is invoked and with no
\* SignedTransaction returned.
C8_ValidationBeforeSigner ==
    /\ (/\ signOut.fn = "SignTransaction"
        /\ \/ signOut.legacy.To = ""
           \/ signOut.legacy.Gas = 0
           \/ signOut.legacy.GasPriceNil)
       => RejectedUnsigned
    /\ (/\ signOut.fn = "SignEIP1559Transaction"
        /\ \/ signOut.eip1559.To = ""
           \/ signOut.eip1559.Gas = 0
           \/ signOut.eip1559.MaxFeePerGasNil
           \/ signOut.eip1559.MaxPriorityFeePerGasNil)
       => RejectedUnsigned

\* SignTransaction was given a recipient and a price but no gas
C8_Witness ==
    /\ signOut.fn = "SignTransaction"
    /\ signOut.legacy.To # ""
    /\ ~signOut.legacy.GasPriceNil
    /\ signOut.legacy.Gas = 0
    /\ RejectedUnsigned

\* C23: no builder operation replaces a malformed input by a default: a
\* setter that was given an amount or a hex text that does not parse stores
\* nothing in the builder in its place (neither a nil amount nor the bytes
\* decoded so far).
C23_NoSilentDefault ==
    [][(conv' # conv /\ conv'.pc = "returned" /\ conv'.out.err # "")
        => txParams' = txParams]_vars

(* ---------------------------------------------------------------------- *)
(* Properties of the unit conversions (checked under SpecUnits)           *)
(* ---------------------------------------------------------------------- *)

\* the documented registry: every recognised name with its exponent
DocumentedExponent ==
    [u \in {"wei"} |-> 0]
    @@ [u \in {"kwei", "babbage", "femtoether"} |-> 3]
    @@ [u \in {"mwei", "lovelace", "picoether"} |-> 6]
    @@ [u \in {"gwei", "shannon", "nanoether", "nano"} |-> 9]
    @@ [u \in {"szabo", "microether", "micro"} |-> 12]
    @@ [u \in {"finney", "milliether", "milli"} |-> 15]
    @@ [u \in {"ether", "eth"} |-> 18]
    @@ [u \in {"kether", "grand"} |-> 21]
    @@ [u \in {"mether"} |-> 24]
    @@ [u \in {"gether"} |-> 27]
    @@ [u \in {"tether"} |-> 30]

\* the decimal text of 10^e
PowerOfTenText(e) == <<"1">> \o ZeroText(e)

\* C10: for every recognised unit name, with its documented exponent e,
\* ToWei("1", name) returns 10^e without an error, and FromWei uses the
\* same exponent for the name: FromWei(10^e, name) returns "1".
C10_UnitRegistryExponents ==
    (conv.pc = "returned" /\ conv.unit \in DOMAIN DocumentedExponent) =>
        /\ (conv.fn = "ToWei" /\ conv.value = <<"1">>) =>
              /\ conv.out.err = ""
              /\ conv.out.wei = Amount(PowerOfTenText(DocumentedExponent[conv.unit]))
        /\ (conv.fn = "FromWei"
            /\ conv.amount = Amount(PowerOfTenText(DocumentedExponent[conv.unit]))) =>
              /\ conv.out.err = ""
              /\ conv.out.text = <<"1">>

\* ToWei("1", "tether") has returned 10^30
C10_Witness ==
    /\ conv.pc = "returned"
    /\ conv.fn = "ToWei"
    /\ conv.value = <<"1">>
    /\ conv.unit = "tether"
    /\ conv.out.wei = Amount(PowerOfTenText(30))

\* a text is a decimal number: an optional sign, digits with at most one
\* point among them, and at least one digit
IsDecimalText(s) ==
    LET signed == s # <<>> /\ s[1] \in {"+", "-"}
        body == IF signed THEN Tail(s) ELSE s
        points == {i \in 1..Len(body) : body[i] = "."}
    IN  /\ Cardinality(points) <= 1
        /\ Len(body) > Cardinality(points)
        /\ \A i \in (1..Len(body)) \ points : IndexOf(DecimalChars, body[i]) > 0

\* the decimal text of the integer that a decimal text times 10^e is, in
\* exact decimal arithmetic, with the fraction left over dropped
ExactWeiText(s, e) ==
    LET signed == s # <<>> /\ s[1] \in {"+", "-"}
        body == IF signed THEN Tail(s) ELSE s
        point == IF \E i \in 1..Len(body) : body[i] = "."
                 THEN CHOOSE i \in 1..Len(body) : body[i] = "."
                 ELSE Len(body) + 1
        frac == SubSeq(body, point + 1, Len(body))
        digits == SubSeq(body, 1, point - 1)
                  \o [i \in 1..e |-> IF i <= Len(frac) THEN frac[i] ELSE "0"]
        lead == {i \in 1..Len(digits) : digits[i] # "0"}
        first == CHOOSE i \in lead : \A j \in lead : i <= j
    IN  IF lead = {} THEN <<"0">>
        ELSE (IF s[1] = "-" THEN <<"-">> ELSE <<>>) \o SubSeq(digits, first, Len(digits))

\* C11: for every decimal text D and recognised unit with exponent e,
\* ToWei(D, unit) returns without an error exactly the integer D * 10^e of
\* exact decimal arithmetic, truncated toward zero.
C11_ToWeiExactDecimal ==
    (/\ conv.pc = "returned"
     /\ conv.fn = "ToWei"
     /\ conv.unit \in DOMAIN DocumentedExponent
     /\ IsDecimalText(conv.value)) =>
        /\ conv.out.err = ""
        /\ conv.out.wei = Amount(ExactWeiText(conv.value, DocumentedExponent[conv.unit]))

\* the number a sequence of digits and an exponent of ten denote, with the
\* zeros at both ends of the digits dropped: 0.sig * 10^exp, and no digits
\* for zero
DecimalOf(digits, exp) ==
    LET sig == {i \in 1..Len(digits) : digits[i] # "0"}
        first == CHOOSE i \in sig : \A j \in sig : i <= j
        last == CHOOSE i \in sig : \A j \in sig : i >= j
    IN  IF sig = {} THEN [sig |-> <<>>, exp |-> 0]
        ELSE [sig |-> SubSeq(digits, first, last), exp |-> exp - (first - 1)]

\* the number a text of a non-negative number denotes: digits with at most
\* one point, and possibly e, a sign and two or three digits of exponent
TextValue(t) ==
    LET epos == IF \E i \in 1..Len(t) : t[i] = "e"
                THEN CHOOSE i \in 1..Len(t) : t[i] = "e"
                ELSE Len(t) + 1
        mant == SubSeq(t, 1, epos - 1)
        ex == SubSeq(t, epos + 2, Len(t))
        dv(i) == IndexOf(DecimalChars, ex[i]) - 1
        mag == IF Len(ex) = 0 THEN 0
               ELSE IF Len(ex) = 2 THEN 10 * dv(1) + dv(2)
               ELSE 100 * dv(1) + 10 * dv(2) + dv(3)
        expo == IF epos < Len(t) /\ t[epos + 1] = "-" THEN -mag ELSE mag
        point == IF \E i \in 1..Len(mant) : mant[i] = "."
                 THEN CHOOSE i \in 1..Len(mant) : mant[i] = "."
                 ELSE Len(mant) + 1
    IN  DecimalOf(SubSeq(mant, 1, point - 1) \o SubSeq(mant, point + 1, Len(mant)),
                  point - 1 + expo)

\* C12: for every non-negative wei amount A and recognised unit with
\* exponent e, FromWei(A, unit) returns without an error a text that denotes
\* exactly A / 10^e, and "0" for the amount 0.
C12_FromWeiExactDecimal ==
    (/\ conv.pc = "returned"
     /\ conv.fn = "FromWei"
     /\ conv.unit \in DOMAIN DocumentedExponent
     /\ ~conv.amount.isNil
     /\ conv.amount.dec[1] # "-") =>
        /\ conv.out.err = ""
        /\ TextValue(conv.out.text)
             = DecimalOf(conv.amount.dec, Len(conv.amount.dec) - DocumentedExponent[conv.unit])
        /\ conv.amount.dec = <<"0">> => conv.out.text = <<"0">>

\* the number of digits a decimal text has after its point
FractionDigits(s) ==
    IF \E i \in 1..Len(s) : s[i] = "."
    THEN Len(s) - (CHOOSE i \in 1..Len(s) : s[i] = ".")
    ELSE 0

\* C13: round trip.  For a recognised unit with exponent e, FromWei of what
\* ToWei returned for a non-negative decimal text D with at most e digits
\* after the point denotes the number D denotes, and ToWei of what FromWei
\* returned for a non-negative amount A is A.
C13_RoundTrip ==
    (conv.pc = "returned" /\ conv.unit \in DOMAIN DocumentedExponent) =>
        /\ (/\ conv.fn = "FromWei"
            /\ conv.value # <<>>
            /\ IsDecimalText(conv.value)
            /\ conv.value[1] \notin {"+", "-"}
            /\ FractionDigits(conv.value) <= DocumentedExponent[conv.unit]) =>
              /\ conv.out.err = ""
              /\ TextValue(conv.out.text) = TextValue(conv.value)
        /\ (/\ conv.fn = "ToWei"
            /\ ~conv.amount.isNil
            /\ conv.amount.dec[1] # "-") =>
              /\ conv.out.err = ""
              /\ conv.out.wei = conv.amount

\* the unit names of the calls that are in the registry in no letter case
UnregisteredNames == {"parsec", ""}

\* C14: for a unit name that is not in the registry, ToWei and FromWei
\* return the unknown-unit error and no converted value, whatever the value
\* argument is (a nil amount included).  A ToWei whose value does not parse
\* either may report that instead.
C14_UnknownUnitFails ==
    (conv.pc = "returned" /\ conv.unit \in UnregisteredNames) =>
        /\ \/ conv.out.err = "unknown unit"
           \/ conv.fn = "ToWei" /\ conv.out.err = "invalid value"
        /\ conv.out.wei = NilAmount
        /\ conv.out.text = <<>>

\* the upper/lower-case variants among the unit names of the calls, each with
\* the recognised name it is a variant of
CaseVariantOf == [ETHER |-> "ether", Ether |-> "ether"]

\* C15: unit lookup is case-insensitive: a call of ToWei or FromWei with an
\* upper/lower-case variant of a recognised unit name ("ETHER", "Ether")
\* returns what the same call returns with the recognised name ("ether").
C15_UnitLookupIgnoresCase ==
    (conv.pc = "returned" /\ conv.unit \in DOMAIN CaseVariantOf) =>
        conv.out = Returns(IF conv.fn = "ToWei"
                           THEN ToWei(conv.value, CaseVariantOf[conv.unit])
                           ELSE FromWei(BigIntOf(conv.amount), CaseVariantOf[conv.unit]))

\* C16: ToWei returns an error and no amount for every value text that is not
\* a plain decimal (optional sign, digits, at most one decimal point): texts
\* in exponent notation, with a hex or binary prefix or digit separators,
\* "Inf" and the empty text are rejected; and ToWei never returns a nil
\* amount together with no error.
C16_ToWeiRejectsNonDecimal ==
    (conv.pc = "returned" /\ conv.fn = "ToWei") =>
        /\ ~IsDecimalText(conv.value) => (conv.out.err # "" /\ conv.out.wei = NilAmount)
        /\ conv.out.wei = NilAmount => conv.out.err # ""

(* ---------------------------------------------------------------------- *)
(* Properties of the hex and address utilities (checked under SpecUtils)  *)
(* ---------------------------------------------------------------------- *)

\* the Go types ToHex prints as an integer
IntegerKinds == {"int", "int64", "uint64", "*big.Int"}

\* the call was given a non-negative integer
NonNegativeInteger ==
    conv.kind \in IntegerKinds /\ ~conv.amount.isNil /\ Head(conv.amount.dec) # "-"

\* a text is 0x followed by the minimal lower-case hex digits of a number:
\* at least one digit, and no leading 0 unless the digit 0 stands alone
MinimalLowerHex(t) ==
    /\ Len(t) >= 3 /\ t[1] = "0" /\ t[2] = "x"
    /\ \A i \in 3..Len(t) : t[i] \in {"0", "1", "2", "3", "4", "5", "6", "7", "8", "9",
                                      "a", "b", "c", "d", "e", "f"}
    /\ t[3] = "0" => Len(t) = 3

\* C17: hex round trip: for a non-negative integer N given as int, int64,
\* uint64 or *big.Int, ToHex(N) is 0x followed by the minimal lower-case hex
\* digits of N (0x0 for zero, 0x3039 for 12345), and FromHex of that text
\* succeeds and returns N.
C17_HexRoundTrip ==
    /\ (conv.pc = "returned" /\ conv.fn = "ToHex" /\ NonNegativeInteger) =>
            /\ MinimalLowerHex(conv.out.text)
            /\ AmountOf(IntSetString(SubSeq(conv.out.text, 3, Len(conv.out.text)), 16).z)
                   = conv.amount
            /\ conv.amount.dec = <<"0">> => conv.out.text = <<"0", "x", "0">>
            /\ conv.amount.dec = <<"1", "2", "3", "4", "5">>
                   => conv.out.text = <<"0", "x", "3", "0", "3", "9">>
    /\ (conv.pc = "returned" /\ conv.fn = "FromHex" /\ NonNegativeInteger) =>
            /\ conv.out.err = ""
            /\ conv.out.wei = conv.amount

\* FromHex returned 2^64 for the text ToHex made of the *big.Int 2^64
C17_Witness ==
    /\ conv.pc = "returned" /\ conv.fn = "FromHex" /\ conv.kind = "*big.Int"
    /\ conv.value = <<"0", "x", "1", "0", "0", "0", "0", "0", "0", "0", "0", "0", "0", "0",
                      "0", "0", "0", "0", "0">>
    /\ conv.out.wei = conv.amount
    /\ conv.out.err = ""

\* a text is 0x followed by an optional sign and at least one hex digit
IsHexText(t) ==
    LET from == IF Len(t) >= 3 /\ t[3] \in {"+", "-"} THEN 4 ELSE 3
    IN  /\ Len(t) >= from /\ t[1] = "0" /\ t[2] = "x"
        /\ \A i \in from..Len(t) : t[i] \in HexDigits

\* C18: FromHex returns a value and no error only for a text that is 0x
\* followed by valid hex digits: without the prefix, with a character that is
\* no hex digit, or with nothing after the prefix, the call fails and
\* returns no number.
C18_FromHexRejectsMalformed ==
    (conv.pc = "returned" /\ conv.fn = "FromHex" /\ ~IsHexText(conv.value)) =>
        /\ conv.out.err # ""
        /\ conv.out.wei = NilAmount

\* C19: IsAddress returns true exactly for the texts of 42 characters that
\* begin with 0x and go on with 40 hex digits of either case.
C19_IsAddress ==
    (conv.pc = "returned" /\ conv.fn = "IsAddress") =>
        conv.out.ok = (/\ Len(conv.value) = 42
                       /\ conv.value[1] = "0" /\ conv.value[2] = "x"
                       /\ \A i \in 3..42 : conv.value[i] \in HexDigits)

\* IsAddress accepted an address of mixed case
C19_Witness ==
    /\ conv.pc = "returned" /\ conv.fn = "IsAddress"
    /\ Len(conv.value) = 42
    /\ \E i \in 3..42 : conv.value[i] \in {"A", "B", "C", "D", "E", "F"}
    /\ \E i \in 3..42 : conv.value[i] \in {"a", "b", "c", "d", "e", "f"}
    /\ conv.out.ok

\* a text is a plain decimal number: one or more digits
IsPlainDecimal(t) ==
    /\ t # <<>>
    /\ \A i \in 1..Len(t) : t[i] \in {"0", "1", "2", "3", "4", "5", "6", "7", "8", "9"}

\* a text is a sign followed by digits
IsSignedDecimal(t) ==
    Len(t) >= 2 /\ t[1] \in {"+", "-"} /\ IsPlainDecimal(Tail(t))

\* a text is 0x followed by two lower-case hex digits for each byte
IsHexOfBytes(t, bs) ==
    /\ Len(t) = 2 + 2 * Len(bs)
    /\ t[1] = "0" /\ t[2] = "x"
    /\ \A i \in 1..Len(bs) : /\ t[2 * i + 1] = HexChar(bs[i] \div 16)
                              /\ t[2 * i + 2] = HexChar(bs[i] % 16)

\* C29: ToHex of a string: a string that starts with 0x is returned
\* unchanged; any other string that is a plain decimal number, of any
\* magnitude, is returned as 0x and the hex digits of that number; every
\* remaining string is returned as the hex of its bytes (a string that is a
\* sign and digits is left open).
C29_ToHexOfString ==
    (conv.pc = "returned" /\ conv.fn = "ToHex" /\ conv.kind = "string") =>
        LET v == conv.value
            out == conv.out.text
        IN  IF Len(v) >= 2 /\ v[1] = "0" /\ v[2] = "x" THEN out = v
            ELSE IF IsPlainDecimal(v)
            THEN /\ MinimalLowerHex(out)
                 /\ IntSetString(SubSeq(out, 3, Len(out)), 16).z = IntSetString(v, 10).z
            ELSE IF IsSignedDecimal(v) THEN TRUE
            ELSE IsHexOfBytes(out, Utf8(v))

====
